---------------------------- MODULE Spec2Model ----------------------------
(***************************************************************************)
(* Signal-to-property matching and temporal intent scoring                 *)
(* (colin330smith/lead-gen, backend/src).                                  *)
(*                                                                         *)
(* Conventions of the model                                                *)
(*  - Python floats in [0,1] are fixed-point integers in units of 1/One    *)
(*    (One = 10000, the four decimals the scorers round to).               *)
(*  - Dates are day numbers; Today is the reference date (date.today()).   *)
(*  - Strings that the code only compares are TLA+ strings; an address is  *)
(*    the sequence of its whitespace-separated, case-folded words.         *)
(*  - The relational store is modelled at its interface: a table is a set  *)
(*    of rows, a query is a set comprehension, and a query without         *)
(*    ORDER BY yields its rows in any order.                               *)
(***************************************************************************)
EXTENDS Integers, Sequences, FiniteSets, TLC

\* Python None / SQL NULL: for a string field, and for a numeric field
NULL == "NULL"
NoValue == -1

\* 1.0 in fixed point: scores are rounded to four decimals.
One == 10000

\* ------------------------------------------------------------------------
\* Bounds of the model
\* ------------------------------------------------------------------------
\* oldest signal age, in days, that the model draws
MaxDaysAgo == 95
\* how far after the reference date a signal may be dated
MaxFutureDays == 2

Today == MaxDaysAgo
Dates == 0 .. (Today + MaxFutureDays)

Min(a, b) == IF a <= b THEN a ELSE b
Max(a, b) == IF a >= b THEN a ELSE b

\* ------------------------------------------------------------------------
\* services/signal_decay.py
\* ------------------------------------------------------------------------
DEFAULT_HALF_LIFE_DAYS == 30

\* 2 ** (-r / h) for 0 <= r < h, in units of 1/One, for the half-lives the
\* model draws (1, 7 and the default 30).
Pow2Frac(h, r) ==
    CASE h = 1 -> One
      [] h = 7 -> <<10000, 9057, 8203, 7430, 6730, 6095, 5520>>[r + 1]
      [] h = 30 -> <<10000, 9772, 9548, 9330, 9117, 8909, 8706, 8507, 8312, 8123,
                     7937, 7756, 7579, 7405, 7236, 7071, 6910, 6752, 6598, 6447,
                     6300, 6156, 6015, 5878, 5743, 5612, 5484, 5359, 5236, 5117>>[r + 1]

\* x / 2**n, for x below 2**30
Halve(x, n) == IF n >= 30 THEN 0 ELSE x \div (2 ^ n)

\* decay_factor = 2 ** (-days_ago / half_life_days)
DecayFactor(days_ago, half_life_days) ==
    Halve(Pow2Frac(half_life_days, days_ago % half_life_days),
          days_ago \div half_life_days)

\* faulty variant: the future-date and same-day branches fall through to the decay
\* formula with the sign of the exponent lost and no clamp
StrengthNoClamp(base_score, signal_date, half_life_days, reference_date) ==
    IF signal_date = NoValue THEN 0
    ELSE LET days_ago == reference_date - signal_date
             d == IF days_ago < 0 THEN -days_ago ELSE days_ago
         IN (base_score * (2 * One - DecayFactor(d, half_life_days))) \div One

\* faulty variant: a missing date counts as a signal of today
StrengthNullFull(base_score, signal_date, half_life_days, reference_date) ==
    IF signal_date = NoValue THEN base_score
    ELSE LET days_ago == reference_date - signal_date
         IN IF days_ago <= 0 THEN base_score
            ELSE Max(0, Min(base_score,
                     (base_score * DecayFactor(days_ago, half_life_days)) \div One))

calculate_signal_strength(base_score, signal_date, half_life_days, reference_date) ==
    IF signal_date = NoValue THEN 0
    ELSE LET days_ago == reference_date - signal_date
         IN IF days_ago < 0 THEN base_score
            ELSE IF days_ago = 0 THEN base_score
            ELSE LET decay_factor == DecayFactor(days_ago, half_life_days)
                     strength == (base_score * decay_factor) \div One
                 IN Max(0, Min(base_score, strength))

\* ------------------------------------------------------------------------
\* services/address_normalization.py
\* An address is the sequence of its words after strip().upper() and the
\* collapse of whitespace; <<>> is the empty string (and None).  The words
\* of the model carry no comma and no full stop.
\* ------------------------------------------------------------------------
STREET_SUFFIXES ==
    [w \in {"ST", "AVE", "AV", "RD", "DR", "LN", "BLVD", "CT", "PL", "CIR",
            "PKWY", "TRL", "WAY"} |->
        CASE w = "ST" -> "STREET"   [] w = "AVE" -> "AVENUE" [] w = "AV" -> "AVENUE"
          [] w = "RD" -> "ROAD"     [] w = "DR" -> "DRIVE"   [] w = "LN" -> "LANE"
          [] w = "BLVD" -> "BOULEVARD" [] w = "CT" -> "COURT" [] w = "PL" -> "PLACE"
          [] w = "CIR" -> "CIRCLE"  [] w = "PKWY" -> "PARKWAY" [] w = "TRL" -> "TRAIL"
          [] w = "WAY" -> "WAY"]

STREET_PREFIXES ==
    [w \in {"N", "S", "E", "W"} |->
        CASE w = "N" -> "NORTH" [] w = "S" -> "SOUTH"
          [] w = "E" -> "EAST"  [] w = "W" -> "WEST"]

SuffixAbbrs == DOMAIN STREET_SUFFIXES
SuffixFulls == {STREET_SUFFIXES[w] : w \in SuffixAbbrs}
\* the states the normalizer accepts
STATES == {"TX", "CA", "NY", "FL", "IL"}

\* Lexical classes of the words the model uses.
\* \d{5}: a five-digit number (a ZIP code, or a five-digit house number)
Zip5Words == {"78701", "78702", "12345"}
\* \d+ with fewer than five digits
NumberWords == {"100", "200"}
\* [A-Z]{2}: the words of exactly two letters
TwoLetterWords == {"ST", "AV", "RD", "DR", "LN", "CT", "PL"} \cup STATES
\* the words of exactly one letter
OneLetterWords == DOMAIN STREET_PREFIXES
IsAlpha(w) == w \notin (Zip5Words \cup NumberWords)

Last(s) == s[Len(s)]
Front(s) == SubSeq(s, 1, Len(s) - 1)

\* re.search: the leftmost word of s that is in S (0 when there is none)
FirstIdx(s, S) ==
    IF \E i \in 1 .. Len(s) : s[i] \in S
    THEN CHOOSE i \in 1 .. Len(s) : s[i] \in S /\ \A j \in 1 .. (i - 1) : s[j] \notin S
    ELSE 0

\* re.search(r"([A-Z][A-Z\s]+),?\s*$"): the leftmost position from which
\* only letters and blanks follow (0 when the two-character minimum fails)
CityStart(s) ==
    LET k == CHOOSE i \in 1 .. (Len(s) + 1) :
                 /\ \A j \in i .. Len(s) : IsAlpha(s[j])
                 /\ (i = 1 \/ ~IsAlpha(s[i - 1]))
    IN IF k > Len(s) THEN 0
       ELSE IF k = Len(s) /\ s[k] \in OneLetterWords THEN 0
       ELSE k

SuffixFull(w) == IF w \in SuffixAbbrs THEN STREET_SUFFIXES[w] ELSE w

\* the two re.sub calls that strip the suffix: the abbreviation, then the
\* full word
StripSuffix(s) ==
    LET l == Last(s)
        b == IF l \in SuffixAbbrs THEN Front(s) ELSE s
    IN IF Len(b) >= 2 /\ Last(b) = SuffixFull(l) THEN Front(b) ELSE b

\* "x = f(x)": the value of v is computed once and handed to F
Then(v, F(_)) == CHOOSE y \in {F(x) : x \in {v}} : TRUE

\* The normalizer works through the address from step to step: n.rest is
\* what is left of it, the other fields are the components found so far.

\* ZIP code: the first five-digit number; the address is cut there
ExtractZip(n) ==
    LET z == FirstIdx(n.rest, Zip5Words)
    IN IF z > 0
       THEN [n EXCEPT !.zip_code = n.rest[z], !.rest = SubSeq(n.rest, 1, z - 1)]
       ELSE n

\* state: the first two-letter word, if it is one of STATES
ExtractState(n) ==
    LET st == FirstIdx(n.rest, TwoLetterWords)
    IN IF st > 0 /\ n.rest[st] \in STATES
       THEN [n EXCEPT !.state = n.rest[st], !.rest = SubSeq(n.rest, 1, st - 1)]
       ELSE n

\* city: only when a state was found; at most three words
ExtractCity(n) ==
    LET c == IF n.state # NULL THEN CityStart(n.rest) ELSE 0
    IN IF c > 0 /\ Len(n.rest) - c + 1 <= 3
       THEN [n EXCEPT !.city = SubSeq(n.rest, c, Len(n.rest)),
                      !.rest = SubSeq(n.rest, 1, c - 1)]
       ELSE n

\* street number: leading digits followed by a blank
ExtractNumber(n) ==
    IF Len(n.rest) >= 2 /\ ~IsAlpha(n.rest[1])
    THEN [n EXCEPT !.street_number = n.rest[1], !.rest = Tail(n.rest)]
    ELSE n

\* street prefix: N, S, E or W followed by a blank
ExtractPrefix(n) ==
    IF Len(n.rest) >= 2 /\ n.rest[1] \in DOMAIN STREET_PREFIXES
    THEN [n EXCEPT !.street_prefix = STREET_PREFIXES[n.rest[1]], !.rest = Tail(n.rest)]
    ELSE n

\* street suffix: a known suffix preceded by a blank
ExtractSuffix(n) ==
    IF Len(n.rest) >= 2 /\ Last(n.rest) \in (SuffixAbbrs \cup SuffixFulls)
    THEN [n EXCEPT !.street_suffix = SuffixFull(Last(n.rest)),
                   !.rest = StripSuffix(n.rest)]
    ELSE n

\* what is left is the street name; the normalized string joins the parts
BuildNormalized(n) ==
    [street_number |-> n.street_number,
     street_prefix |-> n.street_prefix,
     street_name |-> n.rest,
     street_suffix |-> n.street_suffix,
     city |-> n.city,
     state |-> n.state,
     zip_code |-> n.zip_code,
     normalized |-> (IF n.street_number # NULL THEN <<n.street_number>> ELSE <<>>)
                    \o (IF n.street_prefix # NULL THEN <<n.street_prefix>> ELSE <<>>)
                    \o n.rest
                    \o (IF n.street_suffix # NULL THEN <<n.street_suffix>> ELSE <<>>)]

normalize_address(address) ==
    Then(Then(Then(Then(Then(Then(Then(
        [rest |-> address, street_number |-> NULL, street_prefix |-> NULL,
         street_suffix |-> NULL, city |-> <<>>, state |-> NULL, zip_code |-> NULL],
        ExtractZip), ExtractState), ExtractCity), ExtractNumber), ExtractPrefix),
        ExtractSuffix), BuildNormalized)

\* every abbreviation that stands as a word of its own is spelled out
normalize_address_simple(address) ==
    [i \in 1 .. Len(address) |->
        IF address[i] \in SuffixAbbrs THEN STREET_SUFFIXES[address[i]]
        ELSE IF address[i] \in DOMAIN STREET_PREFIXES THEN STREET_PREFIXES[address[i]]
        ELSE address[i]]

\* 1.0 of a match confidence: a unit in which the Jaccard quotients of the
\* model's addresses, the 0.7/0.3 blend and the thresholds are all whole
Whole == 25200

Words(s) == {s[i] : i \in 1 .. Len(s)}

\* faulty variant: the share of the first address's words found in the second
SimilarityByContainment(addr1, addr2) ==
    IF addr1 = <<>> \/ addr2 = <<>> THEN 0
    ELSE IF normalize_address_simple(addr1) = normalize_address_simple(addr2) THEN Whole
    ELSE (Whole * Cardinality(Words(normalize_address_simple(addr1))
                              \cap Words(normalize_address_simple(addr2))))
            \div Cardinality(Words(normalize_address_simple(addr1)))

address_similarity(addr1, addr2) ==
    IF addr1 = <<>> \/ addr2 = <<>> THEN 0
    ELSE LET norm1 == normalize_address_simple(addr1)
             norm2 == normalize_address_simple(addr2)
             tokens1 == Words(norm1)
             tokens2 == Words(norm2)
         IN IF norm1 = norm2 THEN Whole
            ELSE (Whole * Cardinality(tokens1 \cap tokens2))
                     \div Cardinality(tokens1 \cup tokens2)

\* ------------------------------------------------------------------------
\* services/property_matching.py
\* A table is the set of its rows; a row carries the surrogate id of the
\* declarative base next to its own columns.  Coordinates are whole
\* multiples of 0.0001 degrees.
\* ------------------------------------------------------------------------
MATCH_THRESHOLD == (7 * Whole) \div 10
HIGH_CONFIDENCE_THRESHOLD == (9 * Whole) \div 10

\* lat_delta and lng_delta: 0.001 degrees
lat_delta == 10
lng_delta == 10

Abs(x) == IF x < 0 THEN -x ELSE x

\* Python truthiness of an optional number, and of an optional string
TruthyNumber(x) == x # NoValue /\ x # 0
TruthyString(x) == x # NULL

MaxOf(S) == CHOOSE x \in S : \A y \in S : y <= x

\* One "for prop in rows" loop with "if score > best_score": the rows come
\* in no stated order, so the loop may end on any row of the highest score,
\* and only when that score beats the best so far.  best.rows holds the rows
\* the loop may end on (none: best_match is None), best.score is best_score.
BestAfter(best, rows, Score(_)) ==
    IF rows = {} THEN best
    ELSE Then([r \in rows |-> Score(r)],
              LAMBDA scores :
                  Then(MaxOf({scores[r] : r \in rows}),
                       LAMBDA top :
                           IF top > best.score
                           THEN [best EXCEPT !.rows = {r \in rows : scores[r] = top},
                                             !.score = top]
                           ELSE best))

\* faulty variant: any candidate found is returned
AcceptAnyCandidate(best_score) == best_score > 0

\* the decision rule: "if best_score >= MATCH_THRESHOLD"
AcceptMatch(best_score) == best_score >= MATCH_THRESHOLD

\* The matcher works through its strategies from step to step: m.rows and
\* m.score are best_match and best_score, the other fields are its inputs.

\* m.queried names the strategies that sent their query.
Queried(m, strategy) == [m EXCEPT !.queried = @ \cup {strategy}]

\* the matcher before its first strategy: "best_match = None",
\* "best_score = 0.0"
Matching(props, n, zip_code, latitude, longitude) ==
    [props |-> props, normalized |-> n,
     zip_to_match |-> IF TruthyString(n.zip_code) THEN n.zip_code ELSE zip_code,
     latitude |-> latitude, longitude |-> longitude,
     rows |-> {}, score |-> 0, queried |-> {}]

\* Strategy 1: the rows of the same ZIP, normalized address against
\* normalized address, with the street-number boost
ZipScore(normalized, prop_normalized) ==
    LET score == address_similarity(normalized.normalized, prop_normalized.normalized)
    IN IF /\ TruthyString(normalized.street_number)
          /\ TruthyString(prop_normalized.street_number)
          /\ normalized.street_number = prop_normalized.street_number
       THEN Min(Whole, score + Whole \div 5)
       ELSE score

\* the rows a query returns that the loop does not skip
RowsOfZip(props, zip) ==
    {prop \in props : prop.situs_zip = zip /\ prop.situs_address # <<>>}

ZipStrategy(m) ==
    LET S1(prop) == Then(normalize_address(prop.situs_address),
                         LAMBDA pn : ZipScore(m.normalized, pn))
    IN IF TruthyString(m.zip_to_match)
       THEN BestAfter(Queried(m, "zip"), RowsOfZip(m.props, m.zip_to_match), S1)
       ELSE m

\* Strategy 2: the rows inside the bounding box, similarity blended with
\* the distance
CoordinateScore(normalized, prop, latitude, longitude) ==
    LET score == Then(normalize_address(prop.situs_address),
                      LAMBDA pn : address_similarity(normalized.normalized, pn.normalized))
    IN IF TruthyNumber(prop.centroid_y) /\ TruthyNumber(prop.centroid_x)
       THEN LET lat_diff == Abs(prop.centroid_y - latitude)
                lng_diff == Abs(prop.centroid_x - longitude)
                distance_score ==
                    Whole - Min(Whole, ((lat_diff + lng_diff) * Whole)
                                           \div (lat_delta + lng_delta))
            IN (score * 7 + distance_score * 3) \div 10
       ELSE score

RowsInBox(props, latitude, longitude) ==
    {prop \in props :
        /\ prop.centroid_y # NoValue /\ prop.centroid_x # NoValue
        /\ latitude - lat_delta <= prop.centroid_y
        /\ prop.centroid_y <= latitude + lat_delta
        /\ longitude - lng_delta <= prop.centroid_x
        /\ prop.centroid_x <= longitude + lng_delta
        /\ prop.situs_address # <<>>}

\* faulty variant: the coordinate query is sent whenever coordinates are given
CoordinateUngated(m) ==
    LET S2(prop) == CoordinateScore(m.normalized, prop, m.latitude, m.longitude)
    IN IF TruthyNumber(m.latitude) /\ TruthyNumber(m.longitude)
       THEN BestAfter(Queried(m, "coordinate"),
                      RowsInBox(m.props, m.latitude, m.longitude), S2)
       ELSE m

CoordinateStrategy(m) ==
    LET S2(prop) == CoordinateScore(m.normalized, prop, m.latitude, m.longitude)
    IN IF /\ m.score < MATCH_THRESHOLD
          /\ TruthyNumber(m.latitude) /\ TruthyNumber(m.longitude)
       THEN BestAfter(Queried(m, "coordinate"),
                      RowsInBox(m.props, m.latitude, m.longitude), S2)
       ELSE m

\* Strategy 3: the rows of the same ZIP again, normalized address against
\* the stored address as it is
FuzzyStrategy(m) ==
    LET S3(prop) == address_similarity(m.normalized.normalized, prop.situs_address)
    IN IF m.score < MATCH_THRESHOLD /\ TruthyString(m.zip_to_match)
       THEN BestAfter(Queried(m, "fuzzy"), RowsOfZip(m.props, m.zip_to_match), S3)
       ELSE m

\* "Return match if above threshold"
MatchDecision(m) ==
    IF m.normalized.normalized = <<>>
    THEN {[property |-> NoValue, confidence |-> 0]}
    ELSE IF AcceptMatch(m.score)
         THEN {[property |-> prop.prop_id, confidence |-> m.score] : prop \in m.rows}
         ELSE {[property |-> NoValue, confidence |-> m.score]}

\* what match_address_to_property may return: (property, confidence) with
\* the property given by its prop_id, NoValue for None
match_address_to_property(props, address, zip_code, latitude, longitude) ==
    MatchDecision(Then(Then(Then(Then(normalize_address(address),
        LAMBDA n : Matching(props, n, zip_code, latitude, longitude)),
        ZipStrategy), CoordinateStrategy), FuzzyStrategy))

\* (prop_id, confidence, match_method) for a signal
\* faulty variant: every returned property is labelled high confidence
SignalAlwaysHigh(props, signal_data) ==
    {[prop_id |-> r.property, confidence |-> r.confidence,
      match_method |-> IF r.property # NoValue THEN "high_confidence" ELSE "no_match"] :
        r \in match_address_to_property(props, signal_data.address,
                  signal_data.zip_code, signal_data.latitude, signal_data.longitude)}

match_signal_to_property(props, signal_data) ==
    {[prop_id |-> r.property,
      confidence |-> r.confidence,
      match_method |-> IF r.property # NoValue
                       THEN (IF r.confidence >= HIGH_CONFIDENCE_THRESHOLD
                             THEN "high_confidence" ELSE "medium_confidence")
                       ELSE "no_match"] :
        r \in match_address_to_property(props, signal_data.address,
                  signal_data.zip_code, signal_data.latitude, signal_data.longitude)}

\* ------------------------------------------------------------------------
\* ingestion/link_signals_to_properties.py, ingestion/property_universe.py
\* "INSERT ... ON CONFLICT (key) DO UPDATE SET ...": a new row takes the
\* next surrogate id; a row of the same key is updated in the columns of
\* set_ and keeps the others.
\* ------------------------------------------------------------------------
NextId(table) == IF table = {} THEN 1 ELSE MaxOf({r.id : r \in table}) + 1

\* faulty variant: on conflict the property reference is left as it was
UpsertRequestKeepsLink(table, db_record) ==
    IF \E r \in table : r.request_id = db_record.request_id
    THEN {IF r.request_id = db_record.request_id
          THEN [r EXCEPT !.request_status = db_record.request_status]
          ELSE r : r \in table}
    ELSE table \cup {[id |-> NextId(table)] @@ db_record}

\* service_requests: ON CONFLICT (request_id); closed_date and last_updated
\* travel with request_status
UpsertServiceRequest(table, db_record) ==
    IF \E r \in table : r.request_id = db_record.request_id
    THEN {IF r.request_id = db_record.request_id
          THEN [r EXCEPT !.prop_id = db_record.prop_id,
                         !.request_status = db_record.request_status]
          ELSE r : r \in table}
    ELSE table \cup {[id |-> NextId(table)] @@ db_record}

\* code_violations: ON CONFLICT (violation_id)
UpsertCodeViolation(table, db_record) ==
    IF \E r \in table : r.violation_id = db_record.violation_id
    THEN {IF r.violation_id = db_record.violation_id
          THEN [r EXCEPT !.prop_id = db_record.prop_id,
                         !.violation_status = db_record.violation_status]
          ELSE r : r \in table}
    ELSE table \cup {[id |-> NextId(table)] @@ db_record}

\* storm_events: ON CONFLICT (event_id)
UpsertStormEvent(table, db_record) ==
    IF \E r \in table : r.event_id = db_record.event_id
    THEN {IF r.event_id = db_record.event_id
          THEN [r EXCEPT !.damage_description = db_record.damage_description]
          ELSE r : r \in table}
    ELSE table \cup {[id |-> NextId(table)] @@ db_record}

\* "seen[prop.prop_id] = prop": one record for each prop_id, the last one,
\* in the order in which the prop_ids first appear
Deduplicate(props) ==
    LET firsts == {i \in 1 .. Len(props) :
                      \A j \in 1 .. (i - 1) : props[j].prop_id # props[i].prop_id}
        nth(k) == CHOOSE i \in firsts : Cardinality({j \in firsts : j < i}) = k - 1
        last(key) == MaxOf({i \in 1 .. Len(props) : props[i].prop_id = key})
    IN [k \in 1 .. Cardinality(firsts) |-> props[last(props[nth(k)].prop_id)]]

\* properties: ON CONFLICT (prop_id), every other column updated
UpsertProperty(table, record) ==
    IF \E r \in table : r.prop_id = record.prop_id
    THEN {IF r.prop_id = record.prop_id
          THEN [id |-> r.id] @@ record
          ELSE r : r \in table}
    ELSE table \cup {[id |-> NextId(table)] @@ record}

RECURSIVE UpsertEach(_, _)
UpsertEach(table, records) ==
    IF records = <<>> THEN table
    ELSE UpsertEach(UpsertProperty(table, Head(records)), Tail(records))

RECURSIVE InsertEach(_, _)
InsertEach(table, records) ==
    IF records = <<>> THEN table
    ELSE InsertEach(table \cup {[id |-> NextId(table)] @@ Head(records)},
                    Tail(records))

\* faulty variant: a plain INSERT, no ON CONFLICT clause
InsertProperties(table, props) == InsertEach(table, Deduplicate(props))

_upsert_properties(table, props) == UpsertEach(table, Deduplicate(props))

\* the row link_311_requests writes for a record
ServiceRequestRecord(record, prop_id) ==
    [request_id |-> record.request_id, prop_id |-> prop_id,
     address |-> record.address, request_type |-> record.request_type,
     request_status |-> record.request_status, zip_code |-> record.zip_code,
     requested_date |-> record.requested_date]

\* the row link_code_violations writes for a record
CodeViolationRecord(record, prop_id) ==
    [violation_id |-> record.violation_id, prop_id |-> prop_id,
     address |-> record.address, violation_type |-> record.violation_type,
     violation_description |-> record.violation_description,
     violation_status |-> record.status, violation_date |-> record.violation_date]

\* the row link_storm_events writes for a record
StormEventRecord(record) ==
    [event_id |-> record.event_id, event_type |-> record.event_type,
     event_date |-> record.event_date, zip_code |-> record.zip_code,
     magnitude |-> record.magnitude,
     damage_description |-> record.damage_description]

\* a storm event is stored when its ZIP code is set and has a property
StormEventStored(props, record) ==
    /\ TruthyString(record.zip_code)
    /\ \E prop \in props : prop.situs_zip = record.zip_code

\* ------------------------------------------------------------------------
\* features/temporal_features.py, services/interaction_features.py,
\* services/property_lifecycle.py
\* db is what a session reads: [properties, code_violations,
\* service_requests, storm_events].  Scores and weights are in units of
\* 1/One; a storm magnitude is in hundredths of its unit.
\* ------------------------------------------------------------------------
\* datetime.now().year
CurrentYear == 2025

\* the patterns of the scorers' ilike filters that a stored text contains
Substrings ==
    [t \in {"ROOF DAMAGE", "LEAKING ROOF", "EXTERIOR SIDING", "CODE VIOLATION",
            "HVAC REPAIR", "ELECTRICAL HAZARD", "POTHOLE", "HAIL",
            "THUNDERSTORM WIND"} |->
        CASE t \in {"ROOF DAMAGE", "LEAKING ROOF"} -> {"roof"}
          [] t = "EXTERIOR SIDING" -> {"siding", "exterior"}
          [] t = "HVAC REPAIR" -> {"hvac", "air"}
          [] t = "ELECTRICAL HAZARD" -> {"electrical", "electric"}
          [] t = "HAIL" -> {"hail"}
          [] t = "THUNDERSTORM WIND" -> {"wind"}
          [] OTHER -> {}]

\* column.ilike("%pattern%"); no row matches on a NULL column
ILike(text, pattern) == text # NULL /\ pattern \in Substrings[text]

\* session.get(Property, prop_id): the session looks the row up by the mapped
\* primary key, which for Property is the inherited id column (prop_id is a
\* unique column, not a key column)
HasProperty(db, prop_id) == \E p \in db.properties : p.id = prop_id
PropertyOf(db, prop_id) == CHOOSE p \in db.properties : p.id = prop_id

ViolationsOf(db, prop_id) == {v \in db.code_violations : v.prop_id = prop_id}
RequestsOf(db, prop_id) == {r \in db.service_requests : r.prop_id = prop_id}

\* the rows of a query, in the order of their id
SortById(rows) ==
    [k \in 1 .. Cardinality(rows) |->
        CHOOSE r \in rows : Cardinality({q \in rows : q.id < r.id}) = k - 1]
ViolationDates(rows) ==
    [k \in 1 .. Cardinality(rows) |-> SortById(rows)[k].violation_date]
RequestDates(rows) ==
    [k \in 1 .. Cardinality(rows) |-> SortById(rows)[k].requested_date]

\* calculate_temporal_features: the latest dated signal is at most 30 days old
has_recent_violation(db, prop_id) ==
    LET dated == {v \in ViolationsOf(db, prop_id) : v.violation_date # NoValue}
    IN dated # {} /\ Today - MaxOf({v.violation_date : v \in dated}) <= 30

has_recent_request(db, prop_id) ==
    LET dated == {r \in RequestsOf(db, prop_id) : r.requested_date # NoValue}
    IN dated # {} /\ Today - MaxOf({r.requested_date : r \in dated}) <= 30

\* features["property_age"]: <<age>>, or <<>> where the key is not set
PropertyAge(property) ==
    IF TruthyNumber(property.first_improvement_year)
    THEN <<CurrentYear - property.first_improvement_year>>
    ELSE <<>>

\* calculate_interaction_features
storm_violation_interaction(db, prop_id) ==
    /\ ViolationsOf(db, prop_id) # {}
    /\ TruthyString(PropertyOf(db, prop_id).situs_zip)
    /\ \E s \in db.storm_events :
          /\ s.zip_code = PropertyOf(db, prop_id).situs_zip
          /\ s.event_date >= Today - 90

recent_signal_count(db, prop_id) ==
    Cardinality({v \in ViolationsOf(db, prop_id) :
                    v.violation_date # NoValue /\ v.violation_date >= Today - 30})
    + Cardinality({r \in RequestsOf(db, prop_id) :
                    r.requested_date # NoValue /\ r.requested_date >= Today - 30})

\* The feature pipeline, as the set of keys of the dictionary each step
\* returns. Property rows carry no market_value here, which stands for
\* properties whose market_value is NULL.
\* calculate_temporal_features reads the dated signals of prop_id and never
\* the property; either branch of the two last-signal tests sets both keys
calculate_temporal_features(db, prop_id) ==
    (IF {v \in ViolationsOf(db, prop_id) : v.violation_date # NoValue} # {}
     THEN {"days_since_last_violation", "has_recent_violation"}
     ELSE {"days_since_last_violation", "has_recent_violation"})
    \cup (IF {r \in RequestsOf(db, prop_id) : r.requested_date # NoValue} # {}
          THEN {"days_since_last_request", "has_recent_request"}
          ELSE {"days_since_last_request", "has_recent_request"})
    \cup {"violations_last_30_days", "violations_last_60_days", "violations_last_90_days",
          "requests_last_30_days", "requests_last_60_days", "requests_last_90_days",
          "total_signals_last_30_days", "total_signals_last_60_days",
          "total_signals_last_90_days",
          "month", "quarter", "is_summer", "is_winter", "is_spring", "is_fall"}

\* the properties of a ZIP code whose first_improvement_year is not NULL
ZipAgeRows(db, zip_code) ==
    {q \in db.properties : q.situs_zip = zip_code /\ q.first_improvement_year # NoValue}

AgeOf(property) == CurrentYear - property.first_improvement_year

RECURSIVE AgeSum(_)
AgeSum(rows) ==
    IF rows = {} THEN 0
    ELSE AgeOf(CHOOSE q \in rows : TRUE) + AgeSum(rows \ {CHOOSE q \in rows : TRUE})

\* the k-th smallest age of the rows
KthAge(rows, k) ==
    CHOOSE a \in {AgeOf(q) : q \in rows} :
        /\ Cardinality({q \in rows : AgeOf(q) < a}) < k
        /\ k <= Cardinality({q \in rows : AgeOf(q) <= a})

\* twice percentile_cont(0.5) of the ages
MedianAgeTwice(rows) ==
    KthAge(rows, (Cardinality(rows) + 1) \div 2) + KthAge(rows, (Cardinality(rows) \div 2) + 1)

\* calculate_aggregated_features: nothing without the property or its ZIP
\* code; no ZIP value statistics where no market_value is known
calculate_aggregated_features(db, prop_id) ==
    IF ~HasProperty(db, prop_id) THEN {}
    ELSE IF ~TruthyString(PropertyOf(db, prop_id).situs_zip) THEN {}
    ELSE (IF /\ TruthyNumber(PropertyOf(db, prop_id).first_improvement_year)
             /\ AgeSum(ZipAgeRows(db, PropertyOf(db, prop_id).situs_zip)) # 0
          THEN {"property_age", "zip_avg_property_age", "zip_median_property_age"}
               \cup (IF MedianAgeTwice(ZipAgeRows(db, PropertyOf(db, prop_id).situs_zip)) # 0
                     THEN {"age_percentile"} ELSE {})
          ELSE {})
         \cup {"zip_avg_signal_count", "signal_frequency_ratio"}

\* calculate_interaction_features: nothing without the property
calculate_interaction_features(db, prop_id) ==
    IF ~HasProperty(db, prop_id) THEN {}
    ELSE {"violation_count", "request_count", "total_signal_count"}
         \cup (IF ViolationsOf(db, prop_id) # {}
               THEN {"storm_violation_interaction", "recent_storm_count"} ELSE {})
         \cup {"violation_request_interaction", "multiple_violations",
               "recent_signal_count", "recent_signals_interaction"}
         \cup (IF TruthyNumber(PropertyOf(db, prop_id).first_improvement_year)
               THEN {"property_age", "age_violation_interaction", "age_request_interaction"}
               ELSE {})

\* calculate_all_features: the three dictionaries merged
calculate_all_features(db, prop_id) ==
    calculate_temporal_features(db, prop_id)
    \cup calculate_aggregated_features(db, prop_id)
    \cup calculate_interaction_features(db, prop_id)

\* the weights of HIGH_VALUE_COMBINATIONS
HIGH_VALUE_COMBINATIONS ==
    [storm_violation |-> 15000, violation_request |-> 13000,
     multiple_violations |-> 12000, recent_signals |-> 14000]

calculate_interaction_score(db, prop_id) ==
    IF ~HasProperty(db, prop_id) THEN 0
    ELSE (Cardinality(ViolationsOf(db, prop_id))
            + Cardinality(RequestsOf(db, prop_id))) * 1000
         + (IF storm_violation_interaction(db, prop_id)
            THEN HIGH_VALUE_COMBINATIONS.storm_violation ELSE 0)
         + (IF ViolationsOf(db, prop_id) # {} /\ RequestsOf(db, prop_id) # {}
            THEN HIGH_VALUE_COMBINATIONS.violation_request ELSE 0)
         + (IF Cardinality(ViolationsOf(db, prop_id)) >= 2
            THEN HIGH_VALUE_COMBINATIONS.multiple_violations ELSE 0)
         + (IF recent_signal_count(db, prop_id) >= 2
            THEN HIGH_VALUE_COMBINATIONS.recent_signals ELSE 0)

\* property_lifecycle.py, for an age that is not None
calculate_maintenance_urgency(property_age) ==
    IF 15 <= property_age /\ property_age <= 25 THEN 8000
    ELSE IF 25 < property_age /\ property_age <= 35 THEN 6000
    ELSE IF property_age > 35 THEN 7000
    ELSE IF 10 <= property_age /\ property_age < 15 THEN 4000
    ELSE 2000

\* 0.9 in the peak window [lo, hi], 0.6 within five years of it, else 0.3
LifecycleWindow(property_age, lo, hi) ==
    IF lo <= property_age /\ property_age <= hi THEN 9000
    ELSE IF \/ (lo - 5 <= property_age /\ property_age < lo)
            \/ (hi < property_age /\ property_age <= hi + 5) THEN 6000
    ELSE 3000

\* trade.lower(), for the trade strings of the model
Lower(trade) ==
    CASE trade = "ROOFING" -> "roofing"
      [] trade = "Plumbing" -> "plumbing"
      [] OTHER -> trade

get_trade_specific_lifecycle_score(property_age, trade) ==
    CASE Lower(trade) = "roofing" -> LifecycleWindow(property_age, 15, 25)
      [] Lower(trade) = "hvac" -> LifecycleWindow(property_age, 10, 20)
      [] Lower(trade) = "siding" -> LifecycleWindow(property_age, 20, 30)
      [] Lower(trade) = "electrical" -> LifecycleWindow(property_age, 20, 30)
      [] OTHER -> calculate_maintenance_urgency(property_age)

\* ------------------------------------------------------------------------
\* scoring/baseline_scorer.py, scoring/trade_scorers.py,
\* scoring/scoring_service.py
\* A scorer's outcome: the dict it returns (its "score", and whether it
\* carries an "error" key), or the exception it raises.
\* ------------------------------------------------------------------------
SIGNAL_WEIGHTS ==
    [violation |-> 3000, request_311 |-> 2500, storm_event |-> 2000,
     lifecycle |-> 1500, interaction |-> 1000]

TRADE_OPTIONS == {"roofing", "hvac", "siding", "electrical"}

Returned(score) == [raised |-> FALSE, error |-> FALSE, score |-> score]
NotFound == [raised |-> FALSE, error |-> TRUE, score |-> 0]
Raised == [raised |-> TRUE, error |-> FALSE, score |-> NoValue]

Weighted(component, weight) == (component * weight) \div One

\* "strength = calculate_signal_strength(1.0, date)" summed over the dated rows
RECURSIVE DecayedSum(_)
DecayedSum(dates) ==
    IF dates = <<>> THEN 0
    ELSE (IF Head(dates) # NoValue
          THEN calculate_signal_strength(One, Head(dates),
                                         DEFAULT_HALF_LIFE_DAYS, Today)
          ELSE 0) + DecayedSum(Tail(dates))

\* min(1.0, sum / 3.0); the sum over no rows is the 0.0 of a zero count
SignalScore(dates) == Min(One, DecayedSum(dates) \div 3)

LifecycleScore(property, trade) ==
    IF PropertyAge(property) = <<>> THEN 0
    ELSE IF TruthyString(trade)
         THEN get_trade_specific_lifecycle_score(PropertyAge(property)[1], trade)
         ELSE calculate_maintenance_urgency(PropertyAge(property)[1])

\* the weighted components, before the recency boost
BaselineSum(db, prop_id, trade) ==
    Weighted(SignalScore(ViolationDates(ViolationsOf(db, prop_id))),
             SIGNAL_WEIGHTS.violation)
    + Weighted(SignalScore(RequestDates(RequestsOf(db, prop_id))),
               SIGNAL_WEIGHTS.request_311)
    + Weighted(LifecycleScore(PropertyOf(db, prop_id), trade),
               SIGNAL_WEIGHTS.lifecycle)
    + Weighted(Min(One, calculate_interaction_score(db, prop_id) \div 5),
               SIGNAL_WEIGHTS.interaction)

RecencyBoost(db, prop_id, score) ==
    IF has_recent_violation(db, prop_id) \/ has_recent_request(db, prop_id)
    THEN Min(One, score + 1000)
    ELSE score

\* the "components" of the baseline result
NoComponents == [name \in {} |-> 0]

BaselineComponents(db, prop_id, trade) ==
    [violation_score |-> SignalScore(ViolationDates(ViolationsOf(db, prop_id))),
     request_score |-> SignalScore(RequestDates(RequestsOf(db, prop_id))),
     lifecycle_score |-> LifecycleScore(PropertyOf(db, prop_id), trade),
     interaction_score |-> Min(One, calculate_interaction_score(db, prop_id) \div 5),
     recency_boost |-> IF has_recent_violation(db, prop_id) \/ has_recent_request(db, prop_id)
                       THEN 1000 ELSE 0]

\* the baseline result carries its component breakdown
ReturnedWith(score, components) ==
    [raised |-> FALSE, error |-> FALSE, score |-> score, components |-> components]

calculate_baseline_score(db, prop_id, trade) ==
    IF ~HasProperty(db, prop_id) THEN ReturnedWith(0, NoComponents)
    ELSE ReturnedWith(Min(One, Max(0,
                          RecencyBoost(db, prop_id, BaselineSum(db, prop_id, trade)))),
                      BaselineComponents(db, prop_id, trade))

\* "score = min(1.0, score + calculate_signal_strength(0.3, date))" over
\* the dated rows of a trade's own signals
RECURSIVE BoostEach(_, _)
BoostEach(score, dates) ==
    IF dates = <<>> THEN score
    ELSE BoostEach(IF Head(dates) # NoValue
                   THEN Min(One, score + calculate_signal_strength(3000,
                                   Head(dates), DEFAULT_HALF_LIFE_DAYS, Today))
                   ELSE score,
                   Tail(dates))

\* the storms of the last 90 days in a ZIP code whose type matches
RecentStorms(db, zip_code, pattern) ==
    {s \in db.storm_events :
        /\ s.zip_code = zip_code
        /\ ILike(s.event_type, pattern)
        /\ s.event_date >= Today - 90}

\* max((s.magnitude or 0) for s in storm_list)
MaxMagnitude(storm_list) ==
    MaxOf({IF TruthyNumber(s.magnitude) THEN s.magnitude ELSE 0 : s \in storm_list})

\* hail of more than 1.0 inch: 0.4; of more than 0.5 inch: 0.2
HailBoost(db, property) ==
    IF ~TruthyString(property.situs_zip) THEN 0
    ELSE IF RecentStorms(db, property.situs_zip, "hail") = {} THEN 0
    ELSE IF MaxMagnitude(RecentStorms(db, property.situs_zip, "hail")) > 100 THEN 4000
    ELSE IF MaxMagnitude(RecentStorms(db, property.situs_zip, "hail")) > 50 THEN 2000
    ELSE 0

\* wind of more than 60 mph: 0.3
WindBoost(db, property) ==
    IF ~TruthyString(property.situs_zip) THEN 0
    ELSE IF RecentStorms(db, property.situs_zip, "wind") = {} THEN 0
    ELSE IF MaxMagnitude(RecentStorms(db, property.situs_zip, "wind")) > 6000 THEN 3000
    ELSE 0

\* 0.2 for a property whose age lies in the trade's window
AgeWindowBoost(property, lo, hi) ==
    IF PropertyAge(property) = <<>> THEN 0
    ELSE IF lo <= PropertyAge(property)[1] /\ PropertyAge(property)[1] <= hi THEN 2000
    ELSE 0

\* 'components["..."] = value' where the branch is taken
Boost(name, value, present) == IF present THEN name :> value ELSE NoComponents

\* min(0.3, len(list) * 0.1)
CountBoost(rows) == Min(3000, 1000 * Cardinality(rows))

\* a trade scorer's result: its score, and the baseline's components copied
\* with the trade's own entries set
TradeResult(score, base_score, boosts) ==
    ReturnedWith(score, boosts @@ base_score.components)

RoofViolations(db, prop_id) ==
    {v \in ViolationsOf(db, prop_id) :
        ILike(v.violation_type, "roof") \/ ILike(v.violation_description, "roof")}

\* faulty variant: the boosts are added with no cap and no final clamp
RoofingUncapped(db, prop_id) ==
    IF ~HasProperty(db, prop_id) THEN calculate_baseline_score(db, prop_id, "roofing")
    ELSE Returned(calculate_baseline_score(db, prop_id, "roofing").score
                  + (3 * DecayedSum(ViolationDates(RoofViolations(db, prop_id)))) \div 10
                  + HailBoost(db, PropertyOf(db, prop_id))
                  + AgeWindowBoost(PropertyOf(db, prop_id), 15, 25))

calculate_roofing_score(db, prop_id) ==
    IF ~HasProperty(db, prop_id) THEN calculate_baseline_score(db, prop_id, "roofing")
    ELSE TradeResult(
           Min(One, Max(0,
             Min(One, AgeWindowBoost(PropertyOf(db, prop_id), 15, 25)
               + Min(One, HailBoost(db, PropertyOf(db, prop_id))
                   + BoostEach(calculate_baseline_score(db, prop_id, "roofing").score,
                               ViolationDates(RoofViolations(db, prop_id))))))),
           calculate_baseline_score(db, prop_id, "roofing"),
           Boost("roof_violation_boost", CountBoost(RoofViolations(db, prop_id)),
                 RoofViolations(db, prop_id) # {})
           @@ Boost("hail_boost", HailBoost(db, PropertyOf(db, prop_id)),
                    HailBoost(db, PropertyOf(db, prop_id)) > 0)
           @@ Boost("age_window_boost", 2000,
                    AgeWindowBoost(PropertyOf(db, prop_id), 15, 25) > 0))

HvacRequests(db, prop_id) ==
    {r \in RequestsOf(db, prop_id) :
        \/ ILike(r.request_type, "hvac") \/ ILike(r.request_type, "air")
        \/ ILike(r.request_type, "heating") \/ ILike(r.request_type, "cooling")}

\* "datetime" is a local name of the whole function, bound by the import of
\* line 136 only: the age computation of line 130 raises UnboundLocalError,
\* so the scorer returns for a property without first_improvement_year only
calculate_hvac_score(db, prop_id, month) ==
    IF /\ HasProperty(db, prop_id)
       /\ TruthyNumber(PropertyOf(db, prop_id).first_improvement_year)
    THEN Raised
    ELSE TradeResult(
           Min(One, Max(0,
             Min(One, (IF month \in {4, 5, 10, 11} THEN 1000 ELSE 0)
               + BoostEach(calculate_baseline_score(db, prop_id, "hvac").score,
                           RequestDates(HvacRequests(db, prop_id)))))),
           calculate_baseline_score(db, prop_id, "hvac"),
           Boost("hvac_request_boost", CountBoost(HvacRequests(db, prop_id)),
                 HvacRequests(db, prop_id) # {})
           @@ Boost("seasonal_boost", 1000, month \in {4, 5, 10, 11}))

SidingViolations(db, prop_id) ==
    {v \in ViolationsOf(db, prop_id) :
        \/ ILike(v.violation_type, "siding")
        \/ ILike(v.violation_description, "siding")
        \/ ILike(v.violation_type, "exterior")}

calculate_siding_score(db, prop_id) ==
    TradeResult(
        Min(One, Max(0,
          Min(One, (IF HasProperty(db, prop_id)
                    THEN WindBoost(db, PropertyOf(db, prop_id)) ELSE 0)
            + BoostEach(calculate_baseline_score(db, prop_id, "siding").score,
                        ViolationDates(SidingViolations(db, prop_id)))))),
        calculate_baseline_score(db, prop_id, "siding"),
        Boost("siding_violation_boost", CountBoost(SidingViolations(db, prop_id)),
              SidingViolations(db, prop_id) # {})
        @@ Boost("wind_boost", 3000,
                 HasProperty(db, prop_id) /\ WindBoost(db, PropertyOf(db, prop_id)) > 0))

ElectricalRequests(db, prop_id) ==
    {r \in RequestsOf(db, prop_id) :
        \/ ILike(r.request_type, "electrical") \/ ILike(r.request_type, "electric")
        \/ ILike(r.request_type, "wiring")}

calculate_electrical_score(db, prop_id) ==
    TradeResult(
        Min(One, Max(0,
          Min(One, (IF HasProperty(db, prop_id)
                    THEN AgeWindowBoost(PropertyOf(db, prop_id), 20, 30) ELSE 0)
            + BoostEach(calculate_baseline_score(db, prop_id, "electrical").score,
                        RequestDates(ElectricalRequests(db, prop_id)))))),
        calculate_baseline_score(db, prop_id, "electrical"),
        Boost("electrical_request_boost", CountBoost(ElectricalRequests(db, prop_id)),
              ElectricalRequests(db, prop_id) # {})
        @@ Boost("age_window_boost", 2000,
                 /\ HasProperty(db, prop_id)
                 /\ AgeWindowBoost(PropertyOf(db, prop_id), 20, 30) > 0))

\* score_property: an unrecognized trade gets the baseline score of no trade
\* faulty variant: a trade that is not recognized is an error
ScoreRejectsUnknownTrade(db, prop_id, trade, month) ==
    IF ~HasProperty(db, prop_id) THEN NotFound
    ELSE IF TruthyString(trade) /\ Lower(trade) \notin TRADE_OPTIONS THEN Raised
    ELSE calculate_baseline_score(db, prop_id, NULL)

score_property(db, prop_id, trade, month) ==
    IF ~HasProperty(db, prop_id) THEN NotFound
    ELSE IF TruthyString(trade) /\ Lower(trade) \in TRADE_OPTIONS
    THEN CASE Lower(trade) = "roofing" -> calculate_roofing_score(db, prop_id)
           [] Lower(trade) = "hvac" -> calculate_hvac_score(db, prop_id, month)
           [] Lower(trade) = "siding" -> calculate_siding_score(db, prop_id)
           [] Lower(trade) = "electrical" -> calculate_electrical_score(db, prop_id)
    ELSE calculate_baseline_score(db, prop_id, NULL)

\* "if limit: prop_ids = prop_ids[:limit]", for a limit that is not negative
Truncated(prop_ids, limit) ==
    IF TruthyNumber(limit) THEN SubSeq(prop_ids, 1, Min(limit, Len(prop_ids)))
    ELSE prop_ids

\* the entry appended when score_property raises
ErrorEntry == [raised |-> FALSE, error |-> TRUE, score |-> 0]

\* batch_score_properties: one entry per property id, in order
batch_score_properties(db, prop_ids, trade, limit, month) ==
    [i \in 1 .. Len(Truncated(prop_ids, limit)) |->
        IF score_property(db, Truncated(prop_ids, limit)[i], trade, month).raised
        THEN ErrorEntry
        ELSE score_property(db, Truncated(prop_ids, limit)[i], trade, month)]

\* calculate_baseline_score query by query.  Each await sends its own
\* statement, and no isolation level is set on the engine (database.py:27),
\* so each statement reads what is committed when it runs.  reads names the
\* database as each query saw it.
\* "features = await calculate_all_features(session, prop_id)"
FeaturesRead(reads, prop_id) ==
    [violation_count |-> Cardinality(ViolationsOf(reads.interaction, prop_id)),
     request_count |-> Cardinality(RequestsOf(reads.interaction, prop_id)),
     has_recent_violation |-> has_recent_violation(reads.temporal, prop_id),
     has_recent_request |-> has_recent_request(reads.temporal, prop_id)]

ComponentsRead(reads, prop_id, trade) ==
    LET features == FeaturesRead(reads, prop_id)
    IN [violation_score |->
            IF features.violation_count > 0
            THEN SignalScore(ViolationDates(ViolationsOf(reads.violations, prop_id)))
            ELSE 0,
        request_score |->
            IF features.request_count > 0
            THEN SignalScore(RequestDates(RequestsOf(reads.requests, prop_id)))
            ELSE 0,
        lifecycle_score |-> LifecycleScore(PropertyOf(reads.temporal, prop_id), trade),
        interaction_score |->
            Min(One, calculate_interaction_score(reads.score, prop_id) \div 5),
        recency_boost |->
            IF features.has_recent_violation \/ features.has_recent_request
            THEN 1000 ELSE 0]

\* the weights applied, the boost added and the result put together
BaselineResult(components, features) ==
    LET score == Weighted(components.violation_score, SIGNAL_WEIGHTS.violation)
                 + Weighted(components.request_score, SIGNAL_WEIGHTS.request_311)
                 + Weighted(components.lifecycle_score, SIGNAL_WEIGHTS.lifecycle)
                 + Weighted(components.interaction_score, SIGNAL_WEIGHTS.interaction)
    IN [score |-> Min(One, Max(0, IF components.recency_boost > 0
                                  THEN Min(One, score + components.recency_boost)
                                  ELSE score)),
        components |-> components,
        features |-> features]

\* ------------------------------------------------------------------------
\* scoring/optimized_scorer.py
\* ------------------------------------------------------------------------
\* BATCH_SIZE is 1000 in the source; the batches here hold BATCH_SIZE ids
BATCH_SIZE == 2
CONCURRENT_BATCHES == 4

\* "[prop_ids[i : i + BATCH_SIZE] for i in range(0, len(prop_ids), BATCH_SIZE)]"
Batches(prop_ids) ==
    [k \in 1 .. (Len(prop_ids) + BATCH_SIZE - 1) \div BATCH_SIZE |->
        SubSeq(prop_ids, (k - 1) * BATCH_SIZE + 1, Min(k * BATCH_SIZE, Len(prop_ids)))]

\* faulty variant: the semaphore never blocks
SemaphoreNeverLocked(value) == FALSE

\* asyncio.Semaphore(CONCURRENT_BATCHES): acquire blocks while the value is 0
SemaphoreLocked(value) == value = 0

\* a score_batch coroutine that gather has scheduled: not yet inside
\* "async with semaphore"
ScoreBatchTask(batch) ==
    [batch |-> batch, pc |-> "pending", calls |-> <<>>, results |-> <<>>,
     raised |-> FALSE]

\* the tasks holding the semaphore
InsideGate(tasks) == {b \in DOMAIN tasks : tasks[b].pc \in {"inside", "awaiting"}}

\* "if 'error' not in result: results.append(result)", an exception logged
ScoreBatchStep(task, outcome) ==
    [task EXCEPT !.pc = "inside",
                 !.results = IF outcome.raised \/ outcome.error THEN @
                             ELSE Append(@, task.batch[Len(task.calls)]),
                 !.raised = @ \/ outcome.raised]

\* "[result for batch_result in batch_results for result in batch_result]"
RECURSIVE Flatten(_)
Flatten(batch_results) ==
    IF batch_results = <<>> THEN <<>>
    ELSE Head(batch_results) \o Flatten(Tail(batch_results))

\* ------------------------------------------------------------------------
\* services/score_scheduler.py
\* ------------------------------------------------------------------------
\* the properties with a linked violation or request
PropertiesWithSignals(db) ==
    {p.prop_id : p \in {q \in db.properties :
        \/ \E v \in db.code_violations : v.prop_id = q.prop_id
        \/ \E r \in db.service_requests : r.prop_id = q.prop_id}}

\* the values of the INSERT; the trade scorers return no "features"
ScoreData(db, prop_id, trade, score) ==
    [prop_id |-> prop_id, trade |-> trade, intent_score |-> score,
     signal_count |-> IF TruthyString(trade) /\ trade \in TRADE_OPTIONS THEN NoValue
                      ELSE Cardinality(ViolationsOf(db, prop_id))
                           + Cardinality(RequestsOf(db, prop_id)),
     violation_count |-> IF TruthyString(trade) /\ trade \in TRADE_OPTIONS THEN 0
                         ELSE Cardinality(ViolationsOf(db, prop_id)),
     request_count |-> IF TruthyString(trade) /\ trade \in TRADE_OPTIONS THEN 0
                       ELSE Cardinality(RequestsOf(db, prop_id))]

\* lead_scores has one key, prop_id: ON CONFLICT (prop_id) is the conflict
\* target of a run without a trade; ON CONFLICT (prop_id, trade), that of
\* a run with one, names no unique key and the statement is rejected
UpsertAccepted(trade) == ~TruthyString(trade)

\* ON CONFLICT (prop_id) DO UPDATE: set_ carries no trade
UpsertLeadScore(table, score_data) ==
    IF \E r \in table : r.prop_id = score_data.prop_id
    THEN {IF r.prop_id = score_data.prop_id
          THEN [r EXCEPT !.intent_score = score_data.intent_score,
                         !.signal_count = score_data.signal_count,
                         !.violation_count = score_data.violation_count,
                         !.request_count = score_data.request_count]
          ELSE r : r \in table}
    ELSE table \cup {[id |-> NextId(table)] @@ score_data}

\* the properties of a run whose score_property call returns a score
Computed(db, prop_ids, trade, month) ==
    {[prop_id |-> p, score |-> score_property(db, p, trade, month).score] :
        p \in {q \in prop_ids :
                  /\ ~score_property(db, q, trade, month).raised
                  /\ ~score_property(db, q, trade, month).error}}

\* "for prop_id in prop_ids": the upserts of a run, one property after the
\* other
RECURSIVE StoreScores(_, _, _, _)
StoreScores(table, db, computed, trade) ==
    IF computed = {} THEN table
    ELSE LET c == CHOOSE x \in computed : \A y \in computed : x.prop_id <= y.prop_id
         IN StoreScores(UpsertLeadScore(table, ScoreData(db, c.prop_id, trade, c.score)),
                        db, computed \ {c}, trade)

\* what a run leaves in lead_scores: a rejected statement is caught, counted
\* as failed, and leaves the transaction of the run aborted
recalculate_scores(table, db, trade, month) ==
    IF UpsertAccepted(trade)
    THEN StoreScores(table, db,
                     Computed(db, PropertiesWithSignals(db), trade, month), trade)
    ELSE table

\* the stats a run returns
RecalculateStats(db, trade, month) ==
    [total |-> Cardinality(PropertiesWithSignals(db)),
     scored |-> IF UpsertAccepted(trade)
                THEN Cardinality(Computed(db, PropertiesWithSignals(db), trade, month))
                ELSE 0,
     failed |-> IF UpsertAccepted(trade)
                THEN Cardinality(PropertiesWithSignals(db))
                     - Cardinality(Computed(db, PropertiesWithSignals(db), trade, month))
                ELSE Cardinality(PropertiesWithSignals(db))]

\* ------------------------------------------------------------------------
\* services/performance_analytics.py, services/score_calibration.py
\* A rate is a percentage rounded to two decimals, in units of 0.01 %; an
\* adjustment factor is rounded to four decimals, in units of 1/One.
\* ------------------------------------------------------------------------
\* score_ranges, in the order of the dict
RangeOrder == <<"0.0-0.3", "0.3-0.5", "0.5-0.7", "0.7-0.9", "0.9-1.0">>
RangeNames == {RangeOrder[i] : i \in 1 .. Len(RangeOrder)}
score_ranges ==
    [name \in RangeNames |->
        CASE name = "0.0-0.3" -> [min |-> 0, max |-> 3000]
          [] name = "0.3-0.5" -> [min |-> 3000, max |-> 5000]
          [] name = "0.5-0.7" -> [min |-> 5000, max |-> 7000]
          [] name = "0.7-0.9" -> [min |-> 7000, max |-> 9000]
          [] name = "0.9-1.0" -> [min |-> 9000, max |-> One]]

\* a / b rounded to the nearest integer
RoundDiv(a, b) == (2 * a + b) \div (2 * b)

\* select(Lead, LeadScore, LeadFeedback) joined on prop_id and on lead_id,
\* with both trades filtered when a trade is given
JoinedRows(lead_table, score_table, feedback_table, trade) ==
    {[lead_id |-> lead.id, feedback_id |-> feedback.id,
      intent_score |-> score.intent_score, converted |-> feedback.converted] :
        <<lead, score, feedback>> \in
            {t \in lead_table \X score_table \X feedback_table :
                /\ t[1].prop_id = t[2].prop_id
                /\ t[1].id = t[3].lead_id
                /\ TruthyString(trade) => (t[1].trade = trade /\ t[2].trade = trade)}}

\* "if range_data['min'] <= score_value < range_data['max']: ... break":
\* the first range in dict order that holds the score, NULL when none does
RangeOf(score_value) ==
    LET holding == {i \in 1 .. Len(RangeOrder) :
                       /\ score_ranges[RangeOrder[i]].min <= score_value
                       /\ score_value < score_ranges[RangeOrder[i]].max}
    IN IF holding = {} THEN NULL
       ELSE RangeOrder[CHOOSE i \in holding : \A j \in holding : i <= j]

RangeRows(rows, name) == {r \in rows : RangeOf(r.intent_score) = name}

\* calibration_data[range_name]
RangeData(rows, name) ==
    [total_leads |-> Cardinality(RangeRows(rows, name)),
     converted |-> Cardinality({r \in RangeRows(rows, name) : r.converted}),
     conversion_rate |->
        IF RangeRows(rows, name) = {} THEN 0
        ELSE RoundDiv(Cardinality({r \in RangeRows(rows, name) : r.converted}) * One,
                      Cardinality(RangeRows(rows, name))),
     expected_rate |-> (score_ranges[name].min + score_ranges[name].max) \div 2]

RECURSIVE SumOver(_, _)
SumOver(f, names) ==
    IF names = {} THEN 0
    ELSE LET n == CHOOSE x \in names : TRUE
         IN f[n] + SumOver(f, names \ {n})

NoData == [name \in {} |-> 0]

\* faulty variant: the analysis runs on any number of rows
AnalyzeAnySample(rows, min_feedback_count) ==
    [error |-> FALSE, data_points |-> Cardinality(rows),
     total_leads |-> SumOver([name \in RangeNames |->
                                 RangeData(rows, name).total_leads], RangeNames),
     calibration_data |-> [name \in RangeNames |-> RangeData(rows, name)]]

analyze_score_accuracy(rows, min_feedback_count) ==
    IF Cardinality(rows) < min_feedback_count
    THEN [error |-> TRUE, data_points |-> Cardinality(rows), total_leads |-> 0,
          calibration_data |-> NoData]
    ELSE [error |-> FALSE, data_points |-> Cardinality(rows),
          total_leads |-> SumOver([name \in RangeNames |->
                                      RangeData(rows, name).total_leads], RangeNames),
          calibration_data |-> [name \in RangeNames |-> RangeData(rows, name)]]

\* faulty variant: the factor is the plain ratio
AdjustmentUnclamped(actual_rate, expected_rate) ==
    RoundDiv(actual_rate * One, expected_rate)

\* round(max(0.5, min(2.0, actual_rate / expected_rate)), 4)
AdjustmentFactor(actual_rate, expected_rate) ==
    Max(5000, Min(2 * One, RoundDiv(actual_rate * One, expected_rate)))

\* calculate_calibration_adjustments over the analysis with the minimum of
\* five feedback rows
AdjustmentsFrom(accuracy_data) ==
    IF accuracy_data.error
    THEN [error |-> TRUE, adjustments |-> NoData]
    ELSE [error |-> FALSE,
          adjustments |->
             [name \in {n \in DOMAIN accuracy_data.calibration_data :
                           accuracy_data.calibration_data[n].expected_rate > 0} |->
                 [expected_rate |-> accuracy_data.calibration_data[name].expected_rate,
                  actual_rate |-> accuracy_data.calibration_data[name].conversion_rate,
                  adjustment_factor |->
                     AdjustmentFactor(accuracy_data.calibration_data[name].conversion_rate,
                                      accuracy_data.calibration_data[name].expected_rate)]]]

calculate_calibration_adjustments(rows) ==
    CHOOSE result \in {AdjustmentsFrom(accuracy_data) :
                          accuracy_data \in {analyze_score_accuracy(rows, 5)}} : TRUE

\* apply_calibration with the adjustments handed in: the score unchanged
\* when the map is empty or no range of the map holds it, else the score times
\* the factor of the first range with min <= base_score < max, clamped to
\* [0, 1]. The bounds of a range are parsed from its name. The product is
\* exact for scores and factors that are multiples of 0.1.
apply_calibration(base_score, calibration_adjustments) ==
    IF DOMAIN calibration_adjustments = {} THEN base_score
    ELSE IF \E name \in DOMAIN calibration_adjustments :
               /\ score_ranges[name].min <= base_score
               /\ base_score < score_ranges[name].max
    THEN Max(0, Min(One,
             (base_score * calibration_adjustments[
                  CHOOSE name \in DOMAIN calibration_adjustments :
                      /\ score_ranges[name].min <= base_score
                      /\ base_score < score_ranges[name].max].adjustment_factor)
             \div One))
    ELSE base_score

\* "adjustment": round((adjustment_factor - 1.0) * 100, 2), in hundredths of
\* a percent
AdjustmentPercent(adjustment_factor) == adjustment_factor - One

\* get_calibration_recommendations: the error payload of the adjustments
\* passed on, or the adjustments with a recommendation for every range
\* adjusted by more than 10 %
RecommendationsFrom(calibration_data) ==
    IF calibration_data.error
    THEN [error |-> TRUE, adjustments |-> NoData, recommendations |-> {}]
    ELSE [error |-> FALSE,
          adjustments |-> calibration_data.adjustments,
          recommendations |->
             {[score_range |-> name,
               priority |->
                  IF Abs(AdjustmentPercent(
                             calibration_data.adjustments[name].adjustment_factor)) > 2000
                  THEN "high" ELSE "medium"] :
                name \in {n \in DOMAIN calibration_data.adjustments :
                             Abs(AdjustmentPercent(
                                 calibration_data.adjustments[n].adjustment_factor)) > 1000}}]

get_calibration_recommendations(rows) ==
    CHOOSE result \in {RecommendationsFrom(calibration_data) :
                          calibration_data \in {calculate_calibration_adjustments(rows)}} : TRUE

\* ------------------------------------------------------------------------
\* services/feedback_collector.py
\* ------------------------------------------------------------------------
valid_outcomes == {"won", "lost", "no_response", "not_interested", "wrong_lead"}

\* "if rating and not (1 <= rating <= 5): raise ValueError"
RatingRejected(rating) == TruthyNumber(rating) /\ ~(1 <= rating /\ rating <= 5)

\* submit_feedback raises ValueError before it reads the table
FeedbackRejected(args) ==
    \/ args.outcome \notin valid_outcomes
    \/ RatingRejected(args.lead_quality_rating)
    \/ RatingRejected(args.accuracy_rating)
    \/ RatingRejected(args.contact_quality_rating)

\* the columns submit_feedback writes
FeedbackValues(args) ==
    [outcome |-> args.outcome, converted |-> args.converted,
     conversion_value |-> args.conversion_value,
     lead_quality_rating |-> args.lead_quality_rating,
     accuracy_rating |-> args.accuracy_rating,
     contact_quality_rating |-> args.contact_quality_rating]

\* the row of the (lead, contractor) pair is overwritten, or a row is added
StoreFeedback(table, args) ==
    IF \E f \in table : f.lead_id = args.lead_id /\ f.contractor_id = args.contractor_id
    THEN {IF f.lead_id = args.lead_id /\ f.contractor_id = args.contractor_id
          THEN [id |-> f.id, lead_id |-> f.lead_id, contractor_id |-> f.contractor_id,
                values |-> FeedbackValues(args)]
          ELSE f : f \in table}
    ELSE table \cup {[id |-> NextId(table), lead_id |-> args.lead_id,
                      contractor_id |-> args.contractor_id,
                      values |-> FeedbackValues(args)]}

\* _update_lead_conversion
UpdateLeadConversion(table, args) ==
    {IF lead.id = args.lead_id /\ args.converted
     THEN [lead EXCEPT !.status = "converted",
                       !.conversion_value =
                           IF TruthyNumber(args.conversion_value)
                           THEN args.conversion_value ELSE @]
     ELSE lead : lead \in table}

\* ------------------------------------------------------------------------
\* services/territory_manager.py
\* An outcome is the table after the call and whether the call raised.
\* ------------------------------------------------------------------------
\* the active exclusive rows of a (ZIP code, trade) pair
ActiveExclusive(table, zip_code, trade) ==
    {t \in table : /\ t.zip_code = zip_code /\ t.trade = trade
                   /\ t.status = "active" /\ t.is_exclusive}

\* the rows of a contractor for a (ZIP code, trade) pair
TerritoryRows(table, contractor_id, zip_code, trade) ==
    {t \in table : /\ t.contractor_id = contractor_id
                   /\ t.zip_code = zip_code /\ t.trade = trade}

\* "Create or update territory"
StoreTerritory(table, contractor_id, zip_code, trade, is_exclusive) ==
    IF TerritoryRows(table, contractor_id, zip_code, trade) # {}
    THEN {IF t \in TerritoryRows(table, contractor_id, zip_code, trade)
          THEN [t EXCEPT !.status = "active", !.is_exclusive = is_exclusive]
          ELSE t : t \in table}
    ELSE table \cup {[id |-> NextId(table), contractor_id |-> contractor_id,
                      zip_code |-> zip_code, trade |-> trade,
                      is_exclusive |-> is_exclusive, status |-> "active"]}

\* assign_territory; scalar_one_or_none raises on more than one row
assign_territory(table, contractors, contractor_id, zip_code, trade, is_exclusive) ==
    IF contractor_id \notin contractors THEN [raised |-> TRUE, table |-> table]
    ELSE IF is_exclusive /\ Cardinality(ActiveExclusive(table, zip_code, trade)) > 1
    THEN [raised |-> TRUE, table |-> table]
    ELSE IF is_exclusive /\ ActiveExclusive(table, zip_code, trade) # {}
    THEN [raised |-> \E t \in ActiveExclusive(table, zip_code, trade) :
                        t.contractor_id # contractor_id,
          table |-> table]
    ELSE IF Cardinality(TerritoryRows(table, contractor_id, zip_code, trade)) > 1
    THEN [raised |-> TRUE, table |-> table]
    ELSE [raised |-> FALSE,
          table |-> StoreTerritory(table, contractor_id, zip_code, trade, is_exclusive)]

\* revoke_territory
revoke_territory(table, contractor_id, zip_code, trade) ==
    IF Cardinality(TerritoryRows(table, contractor_id, zip_code, trade)) # 1
    THEN [raised |-> TRUE, table |-> table]
    ELSE [raised |-> FALSE,
          table |-> {IF t \in TerritoryRows(table, contractor_id, zip_code, trade)
                     THEN [t EXCEPT !.status = "paused"] ELSE t : t \in table}]

\* ------------------------------------------------------------------------
\* Periodic commits: ingestion/link_signals_to_properties.py and
\* services/score_scheduler.py record by record
\* ------------------------------------------------------------------------
\* the loops commit every 100 records; here every CommitInterval
CommitInterval == 3

\* faulty variant: no periodic commit
CommitNeverDue(count) == FALSE

\* 'if stats["total"] % 100 == 0', 'if stats["scored"] % 100 == 0'
CommitDue(count) == count % CommitInterval = 0

\* "await session.execute(stmt)": the row is written in the open transaction
Written(r, record) == [r EXCEPT !.pending = @ \cup {record}, !.next = @ + 1]

\* "await session.commit()"
Committed(r) == [r EXCEPT !.committed = @ \cup r.pending, !.pending = {}]

\* the open transaction is rolled back: its rows are gone (lost names
\* the rows of the latest rollback)
RolledBack(r) == [r EXCEPT !.lost = r.pending, !.pending = {}]

\* ------------------------------------------------------------------------
\* State
\* ------------------------------------------------------------------------
VARIABLES
    decay_call,     \* the arguments of the calculate_signal_strength call
    decay_result,   \* what it returned (NoValue before it returns)
    decay_prev,     \* the previous call with the same base and half-life
    properties,     \* the properties table
    match_call,     \* the arguments of the match_address_to_property call
    match_result,   \* what it returned (<<>> before it returns)
    signal_result,  \* what match_signal_to_property returned for the call
    similarity,     \* two addresses and, once compared, their similarities
    service_requests,   \* the service_requests table
    code_violations,    \* the code_violations table
    storm_events,       \* the storm_events table
    link_matches,   \* external id -> the match of the step that last wrote
                    \* its row (<<>> before the first)
    last_ingest,    \* the latest ingestion step: what it ingested, whether
                    \* the step before ingested the very same, and what
                    \* its table held before
    score_call,     \* the latest call of a scorer: function and arguments
    score_result,   \* its outcome (<<>> before the first call)
    features_result,    \* the keys calculate_all_features returned (in <<>>)
    batch_result,       \* the list batch_score_properties returned (in <<>>)
    lead_scores,    \* the lead_scores table
    recalc_runs,    \* trade -> the latest recalculate_scores run for it:
                    \* its stats and the scores it computed (<<>> before
                    \* the first)
    leads,          \* the leads table
    lead_feedback,  \* the lead_feedback table
    calib_call,     \* the call of the analytics or the calibration engine
    accuracy_result,    \* what analyze_score_accuracy returned (<<>> before)
    adjustments_result, \* what calculate_calibration_adjustments or
                        \* get_calibration_recommendations returned
    feedback_call,      \* the latest submit_feedback call and whether it raised
    calibrated_result,  \* what apply_calibration returned (in <<>>)
    contractor_territories, \* the contractor_territories table
    territory_call,     \* the latest assign_territory or revoke_territory call
    run,            \* a run of a linking loop or of recalculate_scores,
                    \* record by record: its stats, the rows written and
                    \* not yet committed, the rows committed
    assigns,        \* two assign_territory calls in flight, each in a session
                    \* of its own: per task the arguments, the position and
                    \* the row its own-row query returned
    lead_call,      \* the latest call on LeadGenerationService: function,
                    \* arguments and whether it raised
    scoring,        \* a calculate_baseline_score call taken query by query:
                    \* the step it is at, the database as each query saw
                    \* it, and the result
    gate,           \* a batch_score_optimized call: its semaphore, its
                    \* score_batch tasks and what gather returned
    cascade         \* a match_address_to_property call taken strategy by
                    \* strategy: the step it is at, best_match and
                    \* best_score, and best_score after each strategy

decayVars == <<decay_call, decay_result, decay_prev>>
matchVars == <<match_call, match_result, signal_result, similarity>>
ingestVars == <<service_requests, code_violations, storm_events, link_matches,
                last_ingest>>
scoreVars ==
    <<score_call, score_result, features_result, batch_result, lead_scores, recalc_runs>>
calibVars == <<leads, lead_feedback, calib_call, accuracy_result, adjustments_result,
               feedback_call, calibrated_result>>
territoryVars == <<contractor_territories, territory_call>>
\* the services whose state the scorers and the ingestion do not touch, and
\* the calls taken step by step
serviceVars == <<territoryVars, cascade, gate, scoring, run, assigns, lead_call>>
vars == <<decayVars, properties, matchVars, ingestVars, scoreVars, calibVars, serviceVars>>

\* what a session reads
Database ==
    [properties |-> properties, code_violations |-> code_violations,
     service_requests |-> service_requests, storm_events |-> storm_events]

\* ------------------------------------------------------------------------
\* Decay calculator: calls of calculate_signal_strength
\* ------------------------------------------------------------------------
BaseScores == {0, 3000, One, 25000}
HalfLives == {1, 7, DEFAULT_HALF_LIFE_DAYS}

DecayInit ==
    /\ decay_call \in [base_score : BaseScores, half_life_days : HalfLives,
                       signal_date : Dates \cup {NoValue}]
    /\ decay_result = NoValue
    /\ decay_prev = <<>>

DecayIdle ==
    /\ decay_call = [base_score |-> 0, half_life_days |-> DEFAULT_HALF_LIFE_DAYS,
                     signal_date |-> NoValue]
    /\ decay_result = NoValue
    /\ decay_prev = <<>>

\* the pending call returns
DecayReturn ==
    /\ decay_result = NoValue
    /\ decay_result' = calculate_signal_strength(decay_call.base_score,
                          decay_call.signal_date, decay_call.half_life_days, Today)
    /\ UNCHANGED <<serviceVars,
                   calibVars, scoreVars, decay_call, decay_prev, properties, matchVars, ingestVars>>

\* the caller asks again for another date, same base score and half-life
DecayCallAgain ==
    /\ decay_result # NoValue
    /\ \E d \in Dates \cup {NoValue} :
          decay_call' = [decay_call EXCEPT !.signal_date = d]
    /\ decay_prev' = <<[signal_date |-> decay_call.signal_date,
                         strength |-> decay_result]>>
    /\ decay_result' = NoValue
    /\ UNCHANGED <<serviceVars, calibVars, scoreVars, properties, matchVars, ingestVars>>

\* ------------------------------------------------------------------------
\* Matcher: calls of match_address_to_property against a properties table
\* ------------------------------------------------------------------------
Addresses ==
    {<<"100", "MAIN", "ST">>,
     <<"100", "MAIN", "STREET">>,
     <<"100", "OAK", "ST">>,
     <<"200", "N", "MAIN", "ST">>,
     <<"12345", "MAIN", "ST">>,
     <<"100", "MAIN", "ST", "AUSTIN", "TX", "78701">>,
     <<>>}

Zips == {"78701", "78702", NULL}

\* (latitude, longitude): a point, one 0.0007 degrees from it, one far from
\* both, and no coordinates
Points == {<<302000, -977000>>, <<302004, -977003>>, <<302500, -977000>>,
           <<NoValue, NoValue>>}

PropertyRows ==
    [id : {1, 2}, prop_id : {1001, 1002},
     situs_address : Addresses, situs_zip : {"78701", NULL},
     centroid_y : {302000, 302004, NoValue}, centroid_x : {-977000, -977003, NoValue},
     first_improvement_year : {NoValue}]

\* latitude and longitude are stored together
RowHasPoint(row) == <<row.centroid_y, row.centroid_x>> \in Points

\* the tables of the matcher's runs: one property, or two of which the
\* second lies in ZIP 78701
PropertyTables ==
    LET first == {r \in PropertyRows : r.id = 1 /\ r.prop_id = 1001 /\ RowHasPoint(r)}
        second == {r \in PropertyRows :
                      /\ r.id = 2 /\ r.prop_id = 1002 /\ RowHasPoint(r)
                      /\ r.situs_zip = "78701" /\ r.centroid_y # 302000}
    IN {{r} : r \in first} \cup {{r, q} : r \in first, q \in second}

MatchCalls ==
    {[address |-> a, zip_code |-> z, latitude |-> p[1], longitude |-> p[2]] :
        a \in Addresses, z \in Zips, p \in Points}

NoProperties == {}
NoCall == [address |-> <<>>, zip_code |-> NULL, latitude |-> NoValue,
           longitude |-> NoValue]

NoSimilarity == [addr1 |-> <<>>, addr2 |-> <<>>, compared |-> FALSE, results |-> <<>>]

MatchIdle ==
    /\ match_call = NoCall
    /\ match_result = <<>>
    /\ signal_result = <<>>
    /\ similarity = NoSimilarity

MatchInit ==
    /\ properties \in PropertyTables
    /\ match_call \in MatchCalls
    /\ match_result = <<>>
    /\ signal_result = <<>>
    /\ similarity = NoSimilarity

\* the pending call returns
MatchReturn ==
    /\ match_result = <<>>
    /\ signal_result = <<>>
    /\ \E r \in match_address_to_property(properties, match_call.address,
                    match_call.zip_code, match_call.latitude, match_call.longitude) :
          match_result' = <<r>>
    /\ UNCHANGED <<serviceVars,
                   calibVars, scoreVars, decayVars, properties, match_call, signal_result,
                   similarity, ingestVars>>

\* the same arguments handed over as a signal's data: match_signal_to_property
\* returns the property id, the confidence and the method label
MatchSignalReturn ==
    /\ match_result = <<>>
    /\ signal_result = <<>>
    /\ \E r \in match_signal_to_property(properties, match_call) :
          signal_result' = <<r>>
    /\ UNCHANGED <<serviceVars,
                   calibVars, scoreVars, decayVars, properties, match_call, match_result,
                   similarity, ingestVars>>

\* the self-match check: a stored property's own address, ZIP and centroid
MatchOwnAddress ==
    /\ match_result # <<>> \/ signal_result # <<>>
    /\ \E prop \in properties :
          match_call' = [address |-> prop.situs_address,
                         zip_code |-> prop.situs_zip,
                         latitude |-> prop.centroid_y,
                         longitude |-> prop.centroid_x]
    /\ match_result' = <<>>
    /\ signal_result' = <<>>
    /\ UNCHANGED <<serviceVars,
                   calibVars, scoreVars, decayVars, properties, similarity, ingestVars>>

\* ------------------------------------------------------------------------
\* The matcher strategy by strategy: one match_address_to_property call,
\* each step one strategy block of the function
\* ------------------------------------------------------------------------
NoCascade == [step |-> "none", m |-> <<>>, scores |-> <<>>, result |-> <<>>]

CascadeIdle == cascade = NoCascade

CascadeInit == cascade = [NoCascade EXCEPT !.step = "start"]

\* "if not address", normalize_address, "if not normalized_addr", and
\* best_match, best_score set up
MatchStart ==
    /\ cascade.step = "start"
    /\ \E n \in {normalize_address(match_call.address)} :
          cascade' =
              IF match_call.address = <<>> \/ n.normalized = <<>>
              THEN [cascade EXCEPT !.step = "done",
                                   !.result = <<[property |-> NoValue, confidence |-> 0]>>]
              ELSE [cascade EXCEPT !.step = "zip",
                                   !.m = Matching(properties, n, match_call.zip_code,
                                                  match_call.latitude, match_call.longitude)]
    /\ UNCHANGED <<decayVars, properties, matchVars, ingestVars, scoreVars, calibVars,
                   territoryVars, gate, scoring, run, assigns, lead_call>>

\* one strategy block, and best_score as it leaves it
CascadeAfter(m, step) ==
    [cascade EXCEPT !.step = step, !.m = m, !.scores = Append(@, m.score)]

MatchZipStrategy ==
    /\ cascade.step = "zip"
    /\ \E m \in {ZipStrategy(cascade.m)} : cascade' = CascadeAfter(m, "coordinate")
    /\ UNCHANGED <<decayVars, properties, matchVars, ingestVars, scoreVars, calibVars,
                   territoryVars, gate, scoring, run, assigns, lead_call>>

MatchCoordinateStrategy ==
    /\ cascade.step = "coordinate"
    /\ \E m \in {CoordinateStrategy(cascade.m)} : cascade' = CascadeAfter(m, "fuzzy")
    /\ UNCHANGED <<decayVars, properties, matchVars, ingestVars, scoreVars, calibVars,
                   territoryVars, gate, scoring, run, assigns, lead_call>>

MatchFuzzyStrategy ==
    /\ cascade.step = "fuzzy"
    /\ \E m \in {FuzzyStrategy(cascade.m)} : cascade' = CascadeAfter(m, "return")
    /\ UNCHANGED <<decayVars, properties, matchVars, ingestVars, scoreVars, calibVars,
                   territoryVars, gate, scoring, run, assigns, lead_call>>

\* "Return match if above threshold"
MatchCascadeReturn ==
    /\ cascade.step = "return"
    /\ \E r \in MatchDecision(cascade.m) :
          cascade' = [cascade EXCEPT !.step = "done", !.result = <<r>>]
    /\ UNCHANGED <<decayVars, properties, matchVars, ingestVars, scoreVars, calibVars,
                   territoryVars, gate, scoring, run, assigns, lead_call>>

\* ------------------------------------------------------------------------
\* Address similarity: two addresses compared in both orders and each with
\* itself
\* ------------------------------------------------------------------------
SimilarityAddresses ==
    Addresses \cup {<<"MAIN", "MAIN", "ST">>, <<"ST", "MAIN", "100">>,
                    <<"200", "NORTH", "MAIN", "STREET">>}

SimilarityInit ==
    /\ similarity \in {[addr1 |-> a, addr2 |-> b, compared |-> FALSE, results |-> <<>>] :
                           a \in SimilarityAddresses, b \in SimilarityAddresses}
    /\ match_call = NoCall
    /\ match_result = <<>>
    /\ signal_result = <<>>

AddressSimilarity ==
    /\ ~similarity.compared
    /\ similarity' =
          [similarity EXCEPT
              !.compared = TRUE,
              !.results = <<address_similarity(similarity.addr1, similarity.addr2),
                            address_similarity(similarity.addr2, similarity.addr1),
                            address_similarity(similarity.addr1, similarity.addr1),
                            address_similarity(similarity.addr2, similarity.addr2)>>]
    /\ UNCHANGED <<serviceVars,
                   calibVars, scoreVars, decayVars, properties, match_call, match_result,
                   signal_result, ingestVars>>

\* ------------------------------------------------------------------------
\* Ingestion: the property universe and the three signal linkers, one
\* record (for properties: one page) to a run
\* ------------------------------------------------------------------------
LinkAddresses == {<<"100", "MAIN", "ST">>, <<"200", "OAK", "ST">>}

\* what the upstream sources may hand over
ServiceRequestFeed ==
    [request_id : {"SR-1"}, address : LinkAddresses, zip_code : {"78701"},
     latitude : {NoValue}, longitude : {NoValue},
     request_type : {"HVAC REPAIR"}, requested_date : {Today - 5},
     request_status : {"open", "closed"}]

CodeViolationFeed ==
    [violation_id : {"CV-1"}, address : {<<"100", "MAIN", "ST">>}, zip_code : {"78701"},
     latitude : {NoValue}, longitude : {NoValue}, status : {"open"},
     violation_type : {"ROOF DAMAGE"}, violation_description : {NULL},
     violation_date : {Today - 10}]

StormEventFeed ==
    [event_id : {"NOAA-1"}, zip_code : {"78701", NULL},
     event_type : {"HAIL"}, event_date : {Today - 20}, magnitude : {175},
     damage_description : {NULL, "ROOF"}]

PropertyFeed ==
    [prop_id : {1001}, situs_address : {<<"100", "MAIN", "ST">>, <<"100", "OAK", "ST">>},
     situs_zip : {"78701"}, centroid_y : {NoValue}, centroid_x : {NoValue},
     first_improvement_year : {NoValue}]
    \cup
    [prop_id : {1002}, situs_address : {<<"200", "N", "MAIN", "ST">>},
     situs_zip : {"78701"}, centroid_y : {NoValue}, centroid_x : {NoValue},
     first_improvement_year : {NoValue}]

\* a page of the property source: one record, or two in the order of
\* their prop_id
PropertyPages ==
    {<<r>> : r \in PropertyFeed}
    \cup {<<pair[1], pair[2]>> :
             pair \in {x \in PropertyFeed \X PropertyFeed :
                          x[1] # x[2] /\ x[1].prop_id <= x[2].prop_id}}

LinkedIds == {"SR-1", "CV-1"}
NoMatches == [x \in LinkedIds |-> <<>>]
NoIngest == [kind |-> "none", record |-> <<>>, repeat |-> FALSE,
             rows_before |-> 0, had_row |-> FALSE]

IngestIdle ==
    /\ service_requests = {}
    /\ code_violations = {}
    /\ storm_events = {}
    /\ link_matches = NoMatches
    /\ last_ingest = NoIngest

\* the note of an ingestion step
Ingested(kind, record, table, had_row) ==
    [kind |-> kind, record |-> record,
     repeat |-> (last_ingest.kind = kind /\ last_ingest.record = record),
     rows_before |-> Cardinality(table), had_row |-> had_row]

\* ingest_property_universe: one page through _upsert_properties
UpsertProperties ==
    /\ \E page \in PropertyPages :
          /\ properties' = _upsert_properties(properties, page)
          /\ last_ingest' = Ingested("property", page, properties,
                               \A i \in 1 .. Len(page) :
                                   \E r \in properties : r.prop_id = page[i].prop_id)
    /\ UNCHANGED <<serviceVars,
                   calibVars, scoreVars, decayVars, matchVars, service_requests, code_violations,
                   storm_events, link_matches>>

\* link_311_requests over one record
Link311Requests ==
    /\ \E record \in ServiceRequestFeed :
       \E found \in match_signal_to_property(properties, record) :
          /\ service_requests' = UpsertServiceRequest(service_requests,
                                     ServiceRequestRecord(record, found.prop_id))
          /\ link_matches' = [link_matches EXCEPT ![record.request_id] =
                                 <<[prop_id |-> found.prop_id,
                                    confidence |-> found.confidence]>>]
          /\ last_ingest' = Ingested("311", record, service_requests,
                               \E r \in service_requests :
                                   r.request_id = record.request_id)
    /\ UNCHANGED <<serviceVars,
                   calibVars, scoreVars, decayVars, properties, matchVars, code_violations, storm_events>>

\* link_code_violations over one record
LinkCodeViolations ==
    /\ \E record \in CodeViolationFeed :
       \E found \in match_signal_to_property(properties, record) :
          /\ code_violations' = UpsertCodeViolation(code_violations,
                                    CodeViolationRecord(record, found.prop_id))
          /\ link_matches' = [link_matches EXCEPT ![record.violation_id] =
                                 <<[prop_id |-> found.prop_id,
                                    confidence |-> found.confidence]>>]
          /\ last_ingest' = Ingested("violation", record, code_violations,
                               \E r \in code_violations :
                                   r.violation_id = record.violation_id)
    /\ UNCHANGED <<serviceVars,
                   calibVars, scoreVars, decayVars, properties, matchVars, service_requests, storm_events>>

\* link_storm_events over one record
LinkStormEvents ==
    /\ \E record \in StormEventFeed :
          /\ storm_events' = IF StormEventStored(properties, record)
                             THEN UpsertStormEvent(storm_events, StormEventRecord(record))
                             ELSE storm_events
          /\ last_ingest' = Ingested("storm", record, storm_events,
                               \E r \in storm_events : r.event_id = record.event_id)
    /\ UNCHANGED <<serviceVars,
                   calibVars, scoreVars, decayVars, properties, matchVars, service_requests,
                   code_violations, link_matches>>

\* ------------------------------------------------------------------------
\* Scoring: one call of score_property, calculate_baseline_score or a
\* trade scorer against a database of one property and its signals
\* ------------------------------------------------------------------------
\* first_improvement_year: none, or an age of 3, 12, 17, 22, 28 or 40 years
Years == {NoValue} \cup {CurrentYear - age : age \in {3, 12, 17, 22, 28, 40}}

ScoredProperty(id, situs_zip, first_improvement_year) ==
    [id |-> id, prop_id |-> 1001, situs_address |-> <<"100", "MAIN", "ST">>,
     situs_zip |-> situs_zip, centroid_y |-> NoValue, centroid_x |-> NoValue,
     first_improvement_year |-> first_improvement_year]

ViolationRow(id, violation_id, type, description, date) ==
    [id |-> id, violation_id |-> violation_id, prop_id |-> 1001,
     address |-> <<"100", "MAIN", "ST">>, violation_type |-> type,
     violation_description |-> description, violation_status |-> "open",
     violation_date |-> date]

RequestRow(id, request_id, prop_id, type, date) ==
    [id |-> id, request_id |-> request_id, prop_id |-> prop_id,
     address |-> <<"100", "MAIN", "ST">>, request_type |-> type,
     request_status |-> "open", zip_code |-> "78701", requested_date |-> date]

StormRow(id, event_id, type, date, magnitude) ==
    [id |-> id, event_id |-> event_id, event_type |-> type, event_date |-> date,
     zip_code |-> "78701", magnitude |-> magnitude, damage_description |-> NULL]

\* a roof violation of ten days ago, a siding violation of forty days ago,
\* an undated violation whose description names the roof
ViolationPool ==
    {ViolationRow(1, "CV-1", "ROOF DAMAGE", NULL, Today - 10),
     ViolationRow(2, "CV-2", "EXTERIOR SIDING", NULL, Today - 40),
     ViolationRow(3, "CV-3", "CODE VIOLATION", "LEAKING ROOF", NoValue)}

\* an HVAC request of five days ago, an electrical request dated tomorrow
RequestPool ==
    {RequestRow(1, "SR-1", 1001, "HVAC REPAIR", Today - 5),
     RequestRow(2, "SR-2", 1001, "ELECTRICAL HAZARD", Today + 1)}

\* hail of 1.75 and of 0.75 inch twenty days ago, wind of 65 mph fifty days ago
StormPool ==
    {StormRow(1, "NOAA-1", "HAIL", Today - 20, 175),
     StormRow(2, "NOAA-2", "HAIL", Today - 20, 75),
     StormRow(3, "NOAA-3", "THUNDERSTORM WIND", Today - 50, 6500)}

\* no trade, the four trades, one of them in capitals, two unrecognized ones
Trades == {NULL} \cup TRADE_OPTIONS \cup {"ROOFING", "plumbing", "Plumbing"}
\* datetime.now().month: a month with the seasonal boost and one without
Months == {4, 7}
\* a stored property and a prop_id of no property
\* the row id of the stored property: equal to its prop_id, or not
PropertyRowIds == {1, 1001}
CalledIds == {1, 1001, 9999}

NoScoreCall == [function |-> "none", prop_id |-> NoValue, trade |-> NULL, month |-> 7]
RecalcTrades == {NULL, "roofing", "hvac"}
NoRuns == [t \in RecalcTrades |-> <<>>]

ScoreIdle ==
    /\ score_call = NoScoreCall
    /\ score_result = <<>>
    /\ features_result = <<>>
    /\ batch_result = <<>>
    /\ lead_scores = {}
    /\ recalc_runs = NoRuns

ScoreInit ==
    /\ properties \in {{ScoredProperty(i, z, y)} :
                          i \in PropertyRowIds, z \in {"78701", NULL}, y \in Years}
    /\ code_violations \in SUBSET ViolationPool
    /\ service_requests \in SUBSET RequestPool
    /\ storm_events \in SUBSET StormPool
    /\ link_matches = NoMatches
    /\ last_ingest = NoIngest
    /\ ScoreIdle

\* the month of the call is read by the hvac scorer only
MonthsOf(trade) == IF trade = "hvac" THEN Months ELSE {7}

\* a call of score_property
ScoreProperty ==
    /\ score_result = <<>>
    /\ features_result = <<>>
    /\ batch_result = <<>>
    /\ \E prop_id \in CalledIds, trade \in Trades :
       \E month \in MonthsOf(trade) :
          /\ score_call' = [function |-> "score_property", prop_id |-> prop_id,
                            trade |-> trade, month |-> month]
          /\ score_result' = <<score_property(Database, prop_id, trade, month)>>
    /\ UNCHANGED <<serviceVars,
                   calibVars, decayVars, properties, matchVars, ingestVars, features_result,
                   batch_result, lead_scores, recalc_runs>>

\* a call of calculate_baseline_score
CalculateBaselineScore ==
    /\ score_result = <<>>
    /\ features_result = <<>>
    /\ batch_result = <<>>
    /\ \E prop_id \in CalledIds, trade \in Trades :
          /\ score_call' = [function |-> "calculate_baseline_score",
                            prop_id |-> prop_id, trade |-> trade, month |-> 7]
          /\ score_result' = <<calculate_baseline_score(Database, prop_id, trade)>>
    /\ UNCHANGED <<serviceVars,
                   calibVars, decayVars, properties, matchVars, ingestVars, features_result,
                   batch_result, lead_scores, recalc_runs>>

\* a call of one of the four trade scorers
CalculateTradeScore ==
    /\ score_result = <<>>
    /\ features_result = <<>>
    /\ batch_result = <<>>
    /\ \E prop_id \in CalledIds, trade \in TRADE_OPTIONS :
       \E month \in MonthsOf(trade) :
          /\ score_call' = [function |-> "calculate_" \o trade \o "_score",
                            prop_id |-> prop_id, trade |-> trade, month |-> month]
          /\ score_result' =
                <<CASE trade = "roofing" -> calculate_roofing_score(Database, prop_id)
                    [] trade = "hvac" -> calculate_hvac_score(Database, prop_id, month)
                    [] trade = "siding" -> calculate_siding_score(Database, prop_id)
                    [] trade = "electrical" ->
                           calculate_electrical_score(Database, prop_id)>>
    /\ UNCHANGED <<serviceVars,
                   calibVars, decayVars, properties, matchVars, ingestVars, features_result,
                   batch_result, lead_scores, recalc_runs>>

\* a call of calculate_all_features
CalculateAllFeatures ==
    /\ score_result = <<>>
    /\ features_result = <<>>
    /\ batch_result = <<>>
    /\ \E prop_id \in CalledIds :
          /\ score_call' = [function |-> "calculate_all_features", prop_id |-> prop_id,
                            trade |-> NULL, month |-> 7]
          /\ features_result' = <<calculate_all_features(Database, prop_id)>>
    /\ UNCHANGED <<serviceVars,
                   calibVars, decayVars, properties, matchVars, ingestVars, score_result,
                   batch_result, lead_scores, recalc_runs>>

\* ------------------------------------------------------------------------
\* Batch scoring: one call of batch_score_properties
\* ------------------------------------------------------------------------
\* a stored property's row id and prop_id, an id of neither kind, repeated ids
BatchIds == {<<>>, <<1001>>, <<1, 1001>>, <<1001, 9999, 1>>, <<9999, 1001, 1001>>}
\* no limit, the limit 0, and limits below and above the number of ids
BatchLimits == {NoValue, 0, 2, 5}
BatchTrades == {NULL, "roofing", "hvac"}

BatchInit ==
    /\ properties \in {{ScoredProperty(i, "78701", y)} :
                          i \in PropertyRowIds, y \in {NoValue, CurrentYear - 17}}
    /\ code_violations \in SUBSET {ViolationRow(1, "CV-1", "ROOF DAMAGE", NULL, Today - 10)}
    /\ service_requests \in SUBSET {RequestRow(1, "SR-1", 1001, "HVAC REPAIR", Today - 5)}
    /\ storm_events \in SUBSET {StormRow(1, "NOAA-1", "HAIL", Today - 20, 175)}
    /\ link_matches = NoMatches
    /\ last_ingest = NoIngest
    /\ ScoreIdle

BatchScoreProperties ==
    /\ batch_result = <<>>
    /\ \E prop_ids \in BatchIds, trade \in BatchTrades, limit \in BatchLimits :
       \E month \in MonthsOf(trade) :
          /\ score_call' = [function |-> "batch_score_properties", prop_id |-> NoValue,
                            prop_ids |-> prop_ids, trade |-> trade, limit |-> limit,
                            month |-> month]
          /\ batch_result' =
                <<batch_score_properties(Database, prop_ids, trade, limit, month)>>
    /\ UNCHANGED <<serviceVars,
                   calibVars, decayVars, properties, matchVars, ingestVars, score_result,
                   features_result, lead_scores, recalc_runs>>

\* ------------------------------------------------------------------------
\* Optimized batch scoring: one batch_score_optimized call, its score_batch
\* tasks interleaving at every await.  All tasks share the one session; a
\* score_property call made while another task's call is in flight may be
\* refused by the session, which is an exception the task logs.
\* ------------------------------------------------------------------------
OptimizedIds ==
    {<<>>, <<1001, 9999, 1001>>,
     <<1001, 9999, 1001, 1001, 9999, 1001, 9999, 9999, 9999>>}

NoGate == [step |-> "none", prop_ids |-> <<>>, trade |-> NULL, value |-> 0,
           tasks |-> <<>>, all_results |-> <<>>]

GateIdle == gate = NoGate

GateInit ==
    /\ properties = {ScoredProperty(1001, "78701", CurrentYear - 17)}
    /\ code_violations = {}
    /\ service_requests = {}
    /\ storm_events = {}
    /\ link_matches = NoMatches
    /\ last_ingest = NoIngest
    /\ ScoreIdle
    /\ \E prop_ids \in OptimizedIds, trade \in {NULL, "hvac"} :
          gate = [NoGate EXCEPT !.step = "called", !.prop_ids = prop_ids,
                                !.trade = trade]

\* the batches are split, the semaphore is made and gather schedules one
\* score_batch task per batch
BatchScoreOptimized ==
    /\ gate.step = "called"
    /\ gate' = [gate EXCEPT
                   !.step = "gathering",
                   !.value = CONCURRENT_BATCHES,
                   !.tasks = [k \in DOMAIN Batches(gate.prop_ids) |->
                                 ScoreBatchTask(Batches(gate.prop_ids)[k])]]
    /\ UNCHANGED <<decayVars, properties, matchVars, ingestVars, scoreVars, calibVars,
                   territoryVars, cascade, scoring, run, assigns, lead_call>>

\* "async with semaphore": a task enters
AcquireGate ==
    /\ gate.step = "gathering"
    /\ \E b \in DOMAIN gate.tasks :
          /\ gate.tasks[b].pc = "pending"
          /\ ~SemaphoreLocked(gate.value)
          /\ gate' = [gate EXCEPT !.value = @ - 1, !.tasks[b].pc = "inside"]
    /\ UNCHANGED <<decayVars, properties, matchVars, ingestVars, scoreVars, calibVars,
                   territoryVars, cascade, scoring, run, assigns, lead_call>>

\* "for prop_id in batch: ... await score_property(...)": the call is made
CallScoreProperty ==
    /\ gate.step = "gathering"
    /\ \E b \in DOMAIN gate.tasks :
          /\ gate.tasks[b].pc = "inside"
          /\ Len(gate.tasks[b].calls) < Len(gate.tasks[b].batch)
          /\ gate' = [gate EXCEPT
                         !.tasks[b].pc = "awaiting",
                         !.tasks[b].calls =
                             Append(@, gate.tasks[b].batch[Len(gate.tasks[b].calls) + 1])]
    /\ UNCHANGED <<decayVars, properties, matchVars, ingestVars, scoreVars, calibVars,
                   territoryVars, cascade, scoring, run, assigns, lead_call>>

\* the call returns or raises
ScorePropertyReturns ==
    /\ gate.step = "gathering"
    /\ \E b \in DOMAIN gate.tasks :
          /\ gate.tasks[b].pc = "awaiting"
          /\ \E outcome \in
                 {score_property(Database, Last(gate.tasks[b].calls), gate.trade, 7)}
                 \cup (IF \E c \in DOMAIN gate.tasks : c # b /\ gate.tasks[c].pc = "awaiting"
                       THEN {Raised} ELSE {}) :
                gate' = [gate EXCEPT !.tasks[b] = ScoreBatchStep(@, outcome)]
    /\ UNCHANGED <<decayVars, properties, matchVars, ingestVars, scoreVars, calibVars,
                   territoryVars, cascade, scoring, run, assigns, lead_call>>

\* the loop is through: "return results" leaves "async with semaphore"
ReleaseGate ==
    /\ gate.step = "gathering"
    /\ \E b \in DOMAIN gate.tasks :
          /\ gate.tasks[b].pc = "inside"
          /\ Len(gate.tasks[b].calls) = Len(gate.tasks[b].batch)
          /\ gate' = [gate EXCEPT !.value = @ + 1, !.tasks[b].pc = "done"]
    /\ UNCHANGED <<decayVars, properties, matchVars, ingestVars, scoreVars, calibVars,
                   territoryVars, cascade, scoring, run, assigns, lead_call>>

\* every task is done: gather returns and the results are flattened
GatherReturns ==
    /\ gate.step = "gathering"
    /\ \A b \in DOMAIN gate.tasks : gate.tasks[b].pc = "done"
    /\ gate' = [gate EXCEPT
                   !.step = "returned",
                   !.all_results = Flatten([b \in DOMAIN gate.tasks |->
                                              gate.tasks[b].results])]
    /\ UNCHANGED <<decayVars, properties, matchVars, ingestVars, scoreVars, calibVars,
                   territoryVars, cascade, scoring, run, assigns, lead_call>>

\* ------------------------------------------------------------------------
\* Scoring beside ingestion: one calculate_baseline_score call for property
\* 1001, query by query, while the violation linker commits a violation of
\* that property
\* ------------------------------------------------------------------------
ReadSteps == <<"temporal", "interaction", "violations", "requests", "score">>

NoScoring == [step |-> "none", prop_id |-> NoValue, trade |-> NULL, reads |-> <<>>,
              result |-> <<>>]

ScoringIdle == scoring = NoScoring

ScoringInit ==
    /\ properties \in {{ScoredProperty(1001, "78701", y)} : y \in {NoValue, CurrentYear - 17}}
    /\ code_violations \in SUBSET (ViolationPool \ {ViolationRow(1, "CV-1",
                                       "ROOF DAMAGE", NULL, Today - 10)})
    /\ service_requests \in SUBSET {RequestRow(1, "SR-1", 1001, "HVAC REPAIR", Today - 5)}
    /\ storm_events \in SUBSET {StormRow(1, "NOAA-1", "HAIL", Today - 20, 175)}
    /\ link_matches = NoMatches
    /\ last_ingest = NoIngest
    /\ ScoreIdle
    /\ \E trade \in {NULL, "roofing"} :
          scoring = [NoScoring EXCEPT !.step = "get", !.prop_id = 1001, !.trade = trade]

\* one query of the call: it sees the database as it is now
ScoringRead(at, next) ==
    /\ scoring.step = at
    /\ scoring' = [scoring EXCEPT !.step = next,
                                  !.reads = [name \in DOMAIN @ \cup {at} |->
                                                IF name = at THEN Database ELSE @[name]]]
    /\ UNCHANGED <<decayVars, properties, matchVars, ingestVars, scoreVars, calibVars,
                   territoryVars, cascade, gate, run, assigns, lead_call>>

\* "property = await session.get(Property, prop_id)"
BaselineGetProperty ==
    /\ scoring.step = "get"
    /\ scoring' =
          IF HasProperty(Database, scoring.prop_id)
          THEN [scoring EXCEPT !.step = "temporal", !.reads = [name \in {} |-> Database]]
          ELSE [scoring EXCEPT !.step = "done",
                               !.result = <<[score |-> 0, components |-> NoComponents]>>]
    /\ UNCHANGED <<decayVars, properties, matchVars, ingestVars, scoreVars, calibVars,
                   territoryVars, cascade, gate, run, assigns, lead_call>>

\* calculate_all_features: the queries of calculate_temporal_features
ReadTemporalFeatures == ScoringRead("temporal", "interaction")

\* calculate_all_features: the queries of calculate_interaction_features,
\* after which "features" is complete
ReadInteractionFeatures == ScoringRead("interaction", "violations")

\* "violations = await session.execute(select(CodeViolation)...)"
ReadViolations == ScoringRead("violations", "requests")

\* "requests = await session.execute(select(ServiceRequest)...)"
ReadRequests == ScoringRead("requests", "score")

\* "interaction_score = await calculate_interaction_score(session, prop_id)"
ReadInteractionScore == ScoringRead("score", "return")

\* the result is returned
BaselineReturns ==
    /\ scoring.step = "return"
    /\ scoring' = [scoring EXCEPT
                      !.step = "done",
                      !.result = <<BaselineResult(
                                     ComponentsRead(scoring.reads, scoring.prop_id,
                                                    scoring.trade),
                                     FeaturesRead(scoring.reads, scoring.prop_id))>>]
    /\ UNCHANGED <<decayVars, properties, matchVars, ingestVars, scoreVars, calibVars,
                   territoryVars, cascade, gate, run, assigns, lead_call>>

\* ------------------------------------------------------------------------
\* Runs record by record: link_311_requests, link_code_violations and
\* recalculate_scores over records 1 .. size, with a crash of the process at
\* any point
\* ------------------------------------------------------------------------
MaxRecords == 7

Linkers == {"link_311_requests", "link_code_violations"}

NoRun == [function |-> "none", size |-> 0, next |-> 1, step |-> "none",
          stats |-> [total |-> 0, scored |-> 0, failed |-> 0],
          pending |-> {}, committed |-> {}, lost |-> {}]

RunIdle == run = NoRun

\* the linkers count stats["total"] up; recalculate_scores sets it to
\* len(prop_ids)
RunInit ==
    \E function \in Linkers \cup {"recalculate_scores"}, size \in {0, 2, MaxRecords} :
        run = [NoRun EXCEPT !.function = function, !.size = size, !.step = "loop",
                            !.stats.total = IF function \in Linkers THEN 0 ELSE size]

\* one record of a linking loop: counted, matched, upserted
LinkRecord ==
    /\ run.function \in Linkers
    /\ run.step = "loop"
    /\ run.next <= run.size
    /\ run' = [Written(run, run.next) EXCEPT
                  !.stats.total = @ + 1,
                  !.step = IF CommitDue(run.stats.total + 1) THEN "commit" ELSE "loop"]
    /\ UNCHANGED <<decayVars, properties, matchVars, ingestVars, scoreVars, calibVars,
                   territoryVars, cascade, gate, scoring, assigns, lead_call>>

\* one property of recalculate_scores: scored and upserted, or an error
\* result, or an exception from score_property or from the upsert
ScoreRecord ==
    /\ run.function = "recalculate_scores"
    /\ run.step = "loop"
    /\ run.next <= run.size
    /\ \E outcome \in {"scored", "error", "raised"} :
          run' = IF outcome = "scored"
                 THEN [Written(run, run.next) EXCEPT
                          !.stats.scored = @ + 1,
                          !.step = IF CommitDue(run.stats.scored + 1)
                                   THEN "commit" ELSE "loop"]
                 ELSE [run EXCEPT !.stats.failed = @ + 1, !.next = @ + 1]
    /\ UNCHANGED <<decayVars, properties, matchVars, ingestVars, scoreVars, calibVars,
                   territoryVars, cascade, gate, scoring, assigns, lead_call>>

\* the periodic commit.  A commit that raises rolls the transaction back; in
\* a linker the exception leaves the function, in recalculate_scores it is
\* caught by the loop's "except Exception", which counts a failure
PeriodicCommit ==
    /\ run.step = "commit"
    /\ \/ run' = [Committed(run) EXCEPT !.step = "loop"]
       \/ run' = IF run.function \in Linkers
                 THEN [RolledBack(run) EXCEPT !.step = "raised"]
                 ELSE [RolledBack(run) EXCEPT !.step = "loop", !.stats.failed = @ + 1]
    /\ UNCHANGED <<decayVars, properties, matchVars, ingestVars, scoreVars, calibVars,
                   territoryVars, cascade, gate, scoring, assigns, lead_call>>

\* the commit after the loop, and the return of the stats
FinalCommit ==
    /\ run.step = "loop"
    /\ run.next > run.size
    /\ \/ run' = [Committed(run) EXCEPT !.step = "returned"]
       \/ run' = [RolledBack(run) EXCEPT !.step = "raised"]
    /\ UNCHANGED <<decayVars, properties, matchVars, ingestVars, scoreVars, calibVars,
                   territoryVars, cascade, gate, scoring, assigns, lead_call>>

\* the process dies: what was not committed is lost
Crash ==
    /\ run.step \in {"loop", "commit"}
    /\ run' = [RolledBack(run) EXCEPT !.step = "crashed"]
    /\ UNCHANGED <<decayVars, properties, matchVars, ingestVars, scoreVars, calibVars,
                   territoryVars, cascade, gate, scoring, assigns, lead_call>>

\* ------------------------------------------------------------------------
\* Score scheduler: runs of recalculate_scores, with the violation linker
\* bringing a new signal in between
\* ------------------------------------------------------------------------
\* a second property, with a request of its own; in the scheduler's runs the
\* row ids of the properties equal their prop_id, so that session.get finds
\* the property the signals belong to
OtherProperty ==
    [id |-> 1002, prop_id |-> 1002, situs_address |-> <<"200", "N", "MAIN", "ST">>,
     situs_zip |-> "78701", centroid_y |-> NoValue, centroid_x |-> NoValue,
     first_improvement_year |-> NoValue]

RecalcInit ==
    /\ properties \in {{ScoredProperty(1001, "78701", y), OtherProperty} : y \in Years}
    /\ code_violations \in SUBSET (ViolationPool \ {ViolationRow(1, "CV-1",
                                       "ROOF DAMAGE", NULL, Today - 10)})
    /\ service_requests \in SUBSET {RequestRow(1, "SR-1", 1001, "HVAC REPAIR", Today - 5),
                                    RequestRow(2, "SR-2", 1002, "HVAC REPAIR", Today - 5)}
    /\ storm_events \in SUBSET {StormRow(1, "NOAA-1", "HAIL", Today - 20, 175)}
    /\ link_matches = NoMatches
    /\ last_ingest = NoIngest
    /\ ScoreIdle

\* a run of recalculate_scores
RecalculateScores ==
    /\ \E trade \in RecalcTrades :
       \E month \in MonthsOf(trade) :
          /\ lead_scores' = recalculate_scores(lead_scores, Database, trade, month)
          /\ recalc_runs' = [recalc_runs EXCEPT ![trade] =
                <<[stats |-> RecalculateStats(Database, trade, month),
                   computed |-> Computed(Database, PropertiesWithSignals(Database),
                                         trade, month)]>>]
    /\ UNCHANGED <<serviceVars,
                   calibVars, decayVars, properties, matchVars, ingestVars, score_call,
                   score_result, features_result, batch_result>>

\* ------------------------------------------------------------------------
\* Calibration: one call of analyze_score_accuracy or of
\* calculate_calibration_adjustments over leads that have a stored score
\* and one feedback row each
\* ------------------------------------------------------------------------
\* the number of leads with feedback: below and at the minimum sample
FeedbackCounts == {4, 5}
\* intent scores 0.2, 0.9 and 1.0
FeedbackScores == {2000, 9000, One}
AccuracyTrades == {NULL, "roofing", "hvac"}
\* the default of analyze_score_accuracy and the one the calibration passes
MinFeedbackCounts == {5, 10}

NoCalibCall == [function |-> "none", trade |-> NULL, min_feedback_count |-> 0]
NoFeedbackCall == [function |-> "none"]

CalibIdle ==
    /\ leads = {}
    /\ lead_feedback = {}
    /\ calib_call = NoCalibCall
    /\ accuracy_result = <<>>
    /\ adjustments_result = <<>>
    /\ feedback_call = NoFeedbackCall
    /\ calibrated_result = <<>>

CalibInit ==
    /\ \E n \in FeedbackCounts :
       \E f \in [1 .. n -> FeedbackScores \X BOOLEAN] :
          /\ lead_scores = {[id |-> i, prop_id |-> 2000 + i, trade |-> "roofing",
                             intent_score |-> f[i][1], signal_count |-> NoValue,
                             violation_count |-> 0, request_count |-> 0] : i \in 1 .. n}
          /\ leads = {[id |-> i, prop_id |-> 2000 + i, trade |-> "roofing"] : i \in 1 .. n}
          /\ lead_feedback = {[id |-> i, lead_id |-> i, converted |-> f[i][2]] :
                                 i \in 1 .. n}
    /\ calib_call = NoCalibCall
    /\ accuracy_result = <<>>
    /\ adjustments_result = <<>>
    /\ feedback_call = NoFeedbackCall
    /\ calibrated_result = <<>>
    /\ score_call = NoScoreCall
    /\ score_result = <<>>
    /\ features_result = <<>>
    /\ batch_result = <<>>
    /\ recalc_runs = NoRuns

\* a call of PerformanceAnalytics.analyze_score_accuracy
AnalyzeScoreAccuracy ==
    /\ calib_call = NoCalibCall
    /\ \E trade \in AccuracyTrades, min_feedback_count \in MinFeedbackCounts :
          /\ calib_call' = [function |-> "analyze_score_accuracy", trade |-> trade,
                            min_feedback_count |-> min_feedback_count]
          /\ accuracy_result' =
                <<analyze_score_accuracy(
                      JoinedRows(leads, lead_scores, lead_feedback, trade),
                      min_feedback_count)>>
    /\ UNCHANGED <<serviceVars, decayVars, properties, matchVars, ingestVars, scoreVars, leads,
                   lead_feedback, adjustments_result, feedback_call, calibrated_result>>

\* a call of ScoreCalibrationEngine.calculate_calibration_adjustments
CalculateCalibrationAdjustments ==
    /\ calib_call = NoCalibCall
    /\ \E trade \in AccuracyTrades :
          /\ calib_call' = [function |-> "calculate_calibration_adjustments",
                            trade |-> trade, min_feedback_count |-> 5]
          /\ adjustments_result' =
                <<calculate_calibration_adjustments(
                      JoinedRows(leads, lead_scores, lead_feedback, trade))>>
    /\ UNCHANGED <<serviceVars, decayVars, properties, matchVars, ingestVars, scoreVars, leads,
                   lead_feedback, accuracy_result, feedback_call, calibrated_result>>

\* a call of ScoreCalibrationEngine.get_calibration_recommendations
GetCalibrationRecommendations ==
    /\ calib_call = NoCalibCall
    /\ \E trade \in AccuracyTrades :
          /\ calib_call' = [function |-> "get_calibration_recommendations",
                            trade |-> trade, min_feedback_count |-> 5]
          /\ adjustments_result' =
                <<get_calibration_recommendations(
                      JoinedRows(leads, lead_scores, lead_feedback, trade))>>
    /\ UNCHANGED <<serviceVars, decayVars, properties, matchVars, ingestVars, scoreVars, leads,
                   lead_feedback, accuracy_result, feedback_call, calibrated_result>>

\* ------------------------------------------------------------------------
\* Feedback: one call of FeedbackCollector.submit_feedback on a delivered
\* lead, with or without an earlier feedback row of the same contractor
\* ------------------------------------------------------------------------
\* None, in range, and out of range: 0, 6 and a negative rating
RatingTriples ==
    {<<NoValue, NoValue, NoValue>>, <<3, 1, 5>>,
     <<0, 3, 3>>, <<3, 0, 3>>, <<3, 3, 0>>,
     <<6, 3, 3>>, <<3, 6, 3>>, <<3, 3, 6>>, <<3, 3, -2>>}

FeedbackArgs ==
    {[lead_id |-> l, contractor_id |-> 7, outcome |-> o, converted |-> c,
      conversion_value |-> v, lead_quality_rating |-> r[1], accuracy_rating |-> r[2],
      contact_quality_rating |-> r[3]] :
        l \in {1, 2}, o \in {"won", "no_response", "maybe"}, c \in BOOLEAN,
        v \in {NoValue, 500}, r \in RatingTriples}

FeedbackInit ==
    /\ leads \in {{[id |-> 1, prop_id |-> 2001, trade |-> "roofing", status |-> st,
                     conversion_value |-> NoValue]} : st \in {"delivered", "viewed"}}
    /\ lead_feedback \in
          {{},
           {[id |-> 1, lead_id |-> 1, contractor_id |-> 7,
             values |-> [outcome |-> "no_response", converted |-> FALSE,
                         conversion_value |-> NoValue, lead_quality_rating |-> 2,
                         accuracy_rating |-> NoValue, contact_quality_rating |-> NoValue]]}}
    /\ calib_call = NoCalibCall
    /\ accuracy_result = <<>>
    /\ adjustments_result = <<>>
    /\ feedback_call = NoFeedbackCall
    /\ calibrated_result = <<>>

\* a call of FeedbackCollector.submit_feedback
SubmitFeedback ==
    /\ feedback_call = NoFeedbackCall
    /\ \E args \in FeedbackArgs :
          /\ feedback_call' = [function |-> "submit_feedback", args |-> args,
                               raised |-> FeedbackRejected(args)]
          /\ lead_feedback' = IF FeedbackRejected(args) THEN lead_feedback
                              ELSE StoreFeedback(lead_feedback, args)
          /\ leads' = IF FeedbackRejected(args) THEN leads
                      ELSE UpdateLeadConversion(leads, args)
    /\ UNCHANGED <<serviceVars,
                   decayVars, properties, matchVars, ingestVars, scoreVars, calib_call,
                   accuracy_result, adjustments_result, calibrated_result>>

\* ------------------------------------------------------------------------
\* Applying a calibration: one call of apply_calibration with the
\* adjustments handed in
\* ------------------------------------------------------------------------
\* 0.0, a score inside and the lower bound of several ranges, 1.0
CalibratedScores == {0, 2000, 3000, 5000, 6000, 9000, One}
\* the clamp bounds of the adjustment factor and a factor in between
Factors == {5000, 15000, 2 * One}
\* every map from some of the five ranges to a factor, the empty one included
AdjustmentMaps ==
    UNION {[names -> {[adjustment_factor |-> f] : f \in Factors}] :
              names \in SUBSET RangeNames}

ApplyInit ==
    /\ calib_call \in {[function |-> "apply_calibration", base_score |-> b,
                         calibration_adjustments |-> a] :
                           b \in CalibratedScores, a \in AdjustmentMaps}
    /\ leads = {}
    /\ lead_feedback = {}
    /\ accuracy_result = <<>>
    /\ adjustments_result = <<>>
    /\ feedback_call = NoFeedbackCall
    /\ calibrated_result = <<>>

\* the pending call returns
ApplyCalibration ==
    /\ calib_call.function = "apply_calibration"
    /\ calibrated_result = <<>>
    /\ calibrated_result' = <<apply_calibration(calib_call.base_score,
                                                calib_call.calibration_adjustments)>>
    /\ UNCHANGED <<serviceVars, decayVars, properties, matchVars, ingestVars, scoreVars, leads,
                   lead_feedback, calib_call, accuracy_result, adjustments_result,
                   feedback_call>>

\* ------------------------------------------------------------------------
\* Territories: calls of assign_territory and revoke_territory, from an
\* empty table
\* ------------------------------------------------------------------------
\* the ids of the contractors table
Contractors == {1, 2}
\* the contractor ids of the calls: the two contractors and an unknown one
CallingContractors == Contractors \cup {3}
TerritoryTrades == {"roofing", "hvac"}

NoTerritoryCall == [function |-> "none"]

TerritoryIdle ==
    /\ contractor_territories = {}
    /\ territory_call = NoTerritoryCall

TerritoryInit == TerritoryIdle

AssignTerritory ==
    /\ \E contractor_id \in CallingContractors, trade \in TerritoryTrades,
          is_exclusive \in BOOLEAN :
          /\ territory_call' =
                [function |-> "assign_territory", contractor_id |-> contractor_id,
                 zip_code |-> "78701", trade |-> trade, is_exclusive |-> is_exclusive,
                 raised |-> assign_territory(contractor_territories, Contractors,
                                contractor_id, "78701", trade, is_exclusive).raised]
          /\ contractor_territories' =
                assign_territory(contractor_territories, Contractors,
                    contractor_id, "78701", trade, is_exclusive).table
    /\ UNCHANGED <<decayVars, properties, matchVars, ingestVars, scoreVars, calibVars,
                   cascade, gate, scoring, run, assigns, lead_call>>

RevokeTerritory ==
    /\ \E contractor_id \in CallingContractors, trade \in TerritoryTrades :
          /\ territory_call' =
                [function |-> "revoke_territory", contractor_id |-> contractor_id,
                 zip_code |-> "78701", trade |-> trade, is_exclusive |-> FALSE,
                 raised |-> revoke_territory(contractor_territories,
                                contractor_id, "78701", trade).raised]
          /\ contractor_territories' =
                revoke_territory(contractor_territories, contractor_id, "78701", trade).table
    /\ UNCHANGED <<decayVars, properties, matchVars, ingestVars, scoreVars, calibVars,
                   cascade, gate, scoring, run, assigns, lead_call>>

\* ------------------------------------------------------------------------
\* Two assign_territory calls taken await by await. Each request has a
\* session of its own (api/contractors.py:104); no isolation level is set
\* (database.py:27-35), so each statement reads what is committed when it
\* runs.
\* ------------------------------------------------------------------------
Tasks == {1, 2}

NoAssigns == [task \in Tasks |-> [step |-> "none"]]

AssignsIdle == assigns = NoAssigns

AssignCall(contractor_id, zip_code, trade, is_exclusive) ==
    [contractor_id |-> contractor_id, zip_code |-> zip_code, trade |-> trade,
     is_exclusive |-> is_exclusive, step |-> "get", existing |-> <<>>]

\* a territory row as the table holds it
TerritoryRow(id, contractor_id, trade, is_exclusive, status) ==
    [id |-> id, contractor_id |-> contractor_id, zip_code |-> "78701", trade |-> trade,
     is_exclusive |-> is_exclusive, status |-> status]

\* the table before the calls: empty, contractor 1's paused row, contractor
\* 1's active exclusive row, contractor 2's active shared row
AssignTables(trade) ==
    {{}, {TerritoryRow(1, 1, trade, TRUE, "paused")},
         {TerritoryRow(1, 1, trade, TRUE, "active")},
         {TerritoryRow(1, 2, trade, FALSE, "active")}}

AssignsInit ==
    /\ territory_call = NoTerritoryCall
    /\ \E second \in {2, 3}, trade \in TerritoryTrades, is_exclusive \in BOOLEAN :
          /\ contractor_territories \in AssignTables(trade)
          /\ assigns = [task \in Tasks |->
                            IF task = 1 THEN AssignCall(1, "78701", trade, TRUE)
                            ELSE AssignCall(second, "78701", trade, is_exclusive)]

\* the call's position after a step
AssignAt(task, step) == [assigns EXCEPT ![task].step = step]

\* "contractor = await self.session.get(Contractor, contractor_id)"
AssignGetContractor ==
    /\ \E task \in Tasks :
          /\ assigns[task].step = "get"
          /\ assigns' = AssignAt(task,
                            IF assigns[task].contractor_id \notin Contractors THEN "raised"
                            ELSE IF assigns[task].is_exclusive THEN "check"
                            ELSE "select")
    /\ UNCHANGED <<decayVars, properties, matchVars, ingestVars, scoreVars, calibVars,
                   territoryVars, cascade, gate, scoring, run, lead_call>>

\* "if is_exclusive:" the query for an active exclusive row of the pair and
\* what follows from it
AssignCheckExclusive ==
    /\ \E task \in Tasks :
          /\ assigns[task].step = "check"
          /\ LET a == assigns[task]
                 found == ActiveExclusive(contractor_territories, a.zip_code, a.trade)
             IN assigns' = AssignAt(task,
                    IF Cardinality(found) > 1 THEN "raised"
                    ELSE IF found = {} THEN "select"
                    ELSE IF \E t \in found : t.contractor_id # a.contractor_id THEN "raised"
                    ELSE "returned")
    /\ UNCHANGED <<decayVars, properties, matchVars, ingestVars, scoreVars, calibVars,
                   territoryVars, cascade, gate, scoring, run, lead_call>>

\* "Create or update territory": the query for the contractor's own row
AssignSelectOwn ==
    /\ \E task \in Tasks :
          /\ assigns[task].step = "select"
          /\ LET a == assigns[task]
                 found == TerritoryRows(contractor_territories, a.contractor_id,
                                        a.zip_code, a.trade)
             IN assigns' =
                    IF Cardinality(found) > 1 THEN AssignAt(task, "raised")
                    ELSE [assigns EXCEPT ![task].step = "write",
                                         ![task].existing =
                                            IF found = {} THEN <<>>
                                            ELSE <<CHOOSE t \in found : TRUE>>]
    /\ UNCHANGED <<decayVars, properties, matchVars, ingestVars, scoreVars, calibVars,
                   territoryVars, cascade, gate, scoring, run, lead_call>>

\* the row found is set active, or a new row is added; "await
\* self.session.commit()" and the refresh
AssignCommit ==
    /\ \E task \in Tasks :
          /\ assigns[task].step = "write"
          /\ LET a == assigns[task]
             IN contractor_territories' =
                    IF a.existing # <<>>
                    THEN {IF t.id = a.existing[1].id
                          THEN [t EXCEPT !.status = "active",
                                         !.is_exclusive = a.is_exclusive]
                          ELSE t : t \in contractor_territories}
                    ELSE contractor_territories \cup
                            {[id |-> NextId(contractor_territories),
                              contractor_id |-> a.contractor_id, zip_code |-> a.zip_code,
                              trade |-> a.trade, is_exclusive |-> a.is_exclusive,
                              status |-> "active"]}
          /\ assigns' = AssignAt(task, "returned")
    /\ UNCHANGED <<decayVars, properties, matchVars, ingestVars, scoreVars, calibVars,
                   territory_call, cascade, gate, scoring, run, lead_call>>

\* ------------------------------------------------------------------------
\* services/lead_generation.py
\* ------------------------------------------------------------------------
\* the leads table holds at most MaxLeads rows
MaxLeads == 3

\* the prop_ids with a contact enrichment of status "success"
EnrichedProps == {1002}

\* faulty variant: the subquery finds no lead
NoneAssigned(table, trade) == {}

\* "select(Lead.prop_id).where(Lead.trade == trade,
\* Lead.status.in_(["assigned", "delivered"]))"
AssignedProps(table, trade) ==
    {lead.prop_id : lead \in {l \in table : /\ l.trade = trade
                                             /\ l.status \in {"assigned", "delivered"}}}

\* the rows of the query before its limit: (LeadScore, Property) pairs
LeadCandidates(scores, props, table, trade, min_score, zip_codes, exclude_assigned) ==
    {pair \in scores \X props :
        /\ pair[1].prop_id = pair[2].prop_id
        /\ pair[1].trade = trade
        /\ pair[1].intent_score >= min_score
        /\ zip_codes # <<>> =>
                \E i \in 1 .. Len(zip_codes) : pair[2].situs_zip = zip_codes[i]
        /\ exclude_assigned => pair[1].prop_id \notin AssignedProps(table, trade)}

\* "order_by(LeadScore.intent_score.desc())" and "if max_leads:
\* query.limit(max_leads)": every choice of rows the database may return
LimitedRows(rows, max_leads) ==
    IF ~TruthyNumber(max_leads) THEN {rows}
    ELSE {chosen \in SUBSET rows :
            /\ Cardinality(chosen) = Min(max_leads, Cardinality(rows))
            /\ \A r \in chosen : \A q \in rows \ chosen :
                    r[1].intent_score >= q[1].intent_score}

\* _calculate_quality_score
calculate_quality_score(score, property) ==
    Min(One, score.intent_score
             + (IF ~TruthyNumber(property.market_value) THEN 0
                ELSE IF property.market_value > 500000 THEN 1000
                ELSE IF property.market_value > 300000 THEN 500
                ELSE 0)
             + (IF TruthyNumber(score.signal_count) /\ score.signal_count > 0
                THEN Min(1000, score.signal_count * 200) ELSE 0)
             + (IF property.prop_id \in EnrichedProps THEN 1000 ELSE 0))

\* "lead = Lead(...)"
NewLead(id, score_row, property_row, trade) ==
    [id |-> id, prop_id |-> score_row.prop_id, trade |-> trade,
     intent_score |-> score_row.intent_score,
     quality_score |-> calculate_quality_score(score_row, property_row),
     status |-> "generated", zip_code |-> property_row.situs_zip,
     contractor_id |-> NoValue, assigned_by |-> NULL, delivery_method |-> NULL,
     conversion_value |-> NoValue]

\* "for score_row, property_row in rows": the rows in descending intent
\* score; a row with a lead in status "generated" is skipped, and
\* scalar_one_or_none raises on two of them
RECURSIVE GenerateLoop(_, _, _)
GenerateLoop(table, rows, trade) ==
    IF rows = {} THEN [raised |-> FALSE, table |-> table]
    ELSE LET row == CHOOSE r \in rows :
                        \A q \in rows : r[1].intent_score >= q[1].intent_score
             existing == {l \in table : /\ l.prop_id = row[1].prop_id
                                        /\ l.trade = trade
                                        /\ l.status = "generated"}
         IN IF Cardinality(existing) > 1 THEN [raised |-> TRUE, table |-> table]
            ELSE IF existing # {} THEN GenerateLoop(table, rows \ {row}, trade)
            ELSE GenerateLoop(table \cup {NewLead(NextId(table), row[1], row[2], trade)},
                              rows \ {row}, trade)

\* generate_leads over the rows the query returned: the table after the
\* commit; a raise leaves the session before the commit
generate_leads(table, rows, trade) ==
    CHOOSE result \in {IF looped.raised THEN [raised |-> TRUE, table |-> table] ELSE looped :
                          looped \in {GenerateLoop(table, rows, trade)}} : TRUE

\* the active territories of a contractor for a lead
LeadTerritories(territories, lead, contractor_id) ==
    {t \in territories : /\ t.contractor_id = contractor_id
                         /\ t.zip_code = lead.zip_code
                         /\ t.trade = lead.trade
                         /\ t.status = "active"}

\* assign_lead_to_contractor
assign_lead_to_contractor(table, territories, lead_id, contractor_id, assigned_by) ==
    IF ~\E l \in table : l.id = lead_id THEN [raised |-> TRUE, table |-> table]
    ELSE LET lead == CHOOSE l \in table : l.id = lead_id
         IN IF /\ TruthyString(lead.zip_code)
               /\ Cardinality(LeadTerritories(territories, lead, contractor_id)) # 1
            THEN [raised |-> TRUE, table |-> table]
            ELSE [raised |-> FALSE,
                  table |-> {IF l.id = lead_id
                             THEN [l EXCEPT !.contractor_id = contractor_id,
                                            !.status = "assigned",
                                            !.assigned_by = assigned_by]
                             ELSE l : l \in table}]

\* mark_lead_delivered
mark_lead_delivered(table, lead_id, delivery_method) ==
    IF ~\E l \in table : l.id = lead_id THEN [raised |-> TRUE, table |-> table]
    ELSE [raised |-> FALSE,
          table |-> {IF l.id = lead_id
                     THEN [l EXCEPT !.status = "delivered",
                                    !.delivery_method = delivery_method]
                     ELSE l : l \in table}]

\* mark_lead_converted
mark_lead_converted(table, lead_id, conversion_value) ==
    IF ~\E l \in table : l.id = lead_id THEN [raised |-> TRUE, table |-> table]
    ELSE [raised |-> FALSE,
          table |-> {IF l.id = lead_id
                     THEN [l EXCEPT !.status = "converted",
                                    !.conversion_value =
                                        IF TruthyNumber(conversion_value)
                                        THEN conversion_value ELSE @]
                     ELSE l : l \in table}]

\* ------------------------------------------------------------------------
\* Leads: calls of generate_leads, assign_lead_to_contractor,
\* mark_lead_delivered and mark_lead_converted, one after the other
\* ------------------------------------------------------------------------
NoLeadCall == [function |-> "none"]

LeadCallIdle == lead_call = NoLeadCall

LeadProperty(prop_id, situs_zip, market_value) ==
    [id |-> prop_id, prop_id |-> prop_id, situs_zip |-> situs_zip,
     market_value |-> market_value]

LeadScoreRow(prop_id, trade, intent_score, signal_count) ==
    [id |-> prop_id, prop_id |-> prop_id, trade |-> trade, intent_score |-> intent_score,
     signal_count |-> signal_count]

\* property 1002 has no ZIP code; the score of 1003 has no property row
LeadScoreTables ==
    {{LeadScoreRow(1001, "roofing", 7000, 2), LeadScoreRow(1002, "roofing", 9000, NoValue),
      LeadScoreRow(1003, "roofing", 9500, 1)},
     {LeadScoreRow(1001, "roofing", 5000, 0), LeadScoreRow(1002, "hvac", 8000, 7)}}

LeadTrades == {"roofing", "hvac"}
LeadIds == 1 .. 2

LeadsInit ==
    /\ properties = {LeadProperty(1001, "78701", 350000), LeadProperty(1002, NULL, 600000)}
    /\ lead_scores \in LeadScoreTables
    /\ contractor_territories = {TerritoryRow(1, 1, "roofing", TRUE, "active"),
                                 TerritoryRow(2, 2, "roofing", TRUE, "paused")}
    /\ territory_call = NoTerritoryCall
    /\ leads = {}
    /\ lead_call = NoLeadCall

GenerateLeads ==
    /\ \E trade \in LeadTrades, max_leads \in {NoValue, 1},
          zip_codes \in {<<>>, <<"78701">>}, exclude_assigned \in BOOLEAN :
       \E rows \in LimitedRows(LeadCandidates(lead_scores, properties, leads, trade, 6000,
                                               zip_codes, exclude_assigned), max_leads) :
       \E result \in {generate_leads(leads, rows, trade)} :
          /\ Cardinality(result.table) <= MaxLeads
          /\ leads' = result.table
          /\ lead_call' = [function |-> "generate_leads", trade |-> trade,
                           max_leads |-> max_leads, zip_codes |-> zip_codes,
                           exclude_assigned |-> exclude_assigned,
                           raised |-> result.raised]
    /\ UNCHANGED <<decayVars, properties, matchVars, ingestVars, scoreVars, lead_feedback,
                   calib_call, accuracy_result, adjustments_result, feedback_call,
                   calibrated_result, territoryVars, cascade, gate, scoring, run, assigns>>

AssignLeadToContractor ==
    /\ \E lead_id \in LeadIds, contractor_id \in Contractors :
          /\ leads' = assign_lead_to_contractor(leads, contractor_territories, lead_id,
                                                contractor_id, "system").table
          /\ lead_call' = [function |-> "assign_lead_to_contractor", lead_id |-> lead_id,
                           contractor_id |-> contractor_id,
                           raised |-> assign_lead_to_contractor(leads,
                                          contractor_territories, lead_id,
                                          contractor_id, "system").raised]
    /\ UNCHANGED <<decayVars, properties, matchVars, ingestVars, scoreVars, lead_feedback,
                   calib_call, accuracy_result, adjustments_result, feedback_call,
                   calibrated_result, territoryVars, cascade, gate, scoring, run, assigns>>

MarkLeadDelivered ==
    /\ \E lead_id \in LeadIds :
          /\ leads' = mark_lead_delivered(leads, lead_id, "api").table
          /\ lead_call' = [function |-> "mark_lead_delivered", lead_id |-> lead_id,
                           raised |-> mark_lead_delivered(leads, lead_id, "api").raised]
    /\ UNCHANGED <<decayVars, properties, matchVars, ingestVars, scoreVars, lead_feedback,
                   calib_call, accuracy_result, adjustments_result, feedback_call,
                   calibrated_result, territoryVars, cascade, gate, scoring, run, assigns>>

MarkLeadConverted ==
    /\ \E lead_id \in LeadIds, conversion_value \in {NoValue, 5000} :
          /\ leads' = mark_lead_converted(leads, lead_id, conversion_value).table
          /\ lead_call' = [function |-> "mark_lead_converted", lead_id |-> lead_id,
                           raised |-> mark_lead_converted(leads, lead_id,
                                                          conversion_value).raised]
    /\ UNCHANGED <<decayVars, properties, matchVars, ingestVars, scoreVars, lead_feedback,
                   calib_call, accuracy_result, adjustments_result, feedback_call,
                   calibrated_result, territoryVars, cascade, gate, scoring, run, assigns>>

\* the services are idle
ServiceIdle ==
    /\ TerritoryIdle
    /\ LeadCallIdle
    /\ AssignsIdle
    /\ CascadeIdle
    /\ GateIdle
    /\ ScoringIdle
    /\ RunIdle

\* ------------------------------------------------------------------------
\* Specifications
\* ------------------------------------------------------------------------
DecayNext == DecayReturn \/ DecayCallAgain

InitDecay ==
    /\ ServiceIdle
    /\ DecayInit
    /\ properties = NoProperties
    /\ MatchIdle
    /\ IngestIdle
    /\ ScoreIdle
    /\ CalibIdle

SpecDecay == InitDecay /\ [][DecayNext]_vars

MatchNext == MatchReturn \/ MatchSignalReturn \/ MatchOwnAddress

InitMatch ==
    /\ ServiceIdle
    /\ MatchInit
    /\ DecayIdle
    /\ IngestIdle
    /\ ScoreIdle
    /\ CalibIdle

SpecMatch == InitMatch /\ [][MatchNext]_vars

CascadeNext ==
    \/ MatchStart
    \/ MatchZipStrategy
    \/ MatchCoordinateStrategy
    \/ MatchFuzzyStrategy
    \/ MatchCascadeReturn

InitCascade ==
    /\ CascadeInit
    /\ LeadCallIdle
    /\ AssignsIdle
    /\ GateIdle
    /\ ScoringIdle
    /\ RunIdle
    /\ MatchInit
    /\ TerritoryIdle
    /\ DecayIdle
    /\ IngestIdle
    /\ ScoreIdle
    /\ CalibIdle

SpecCascade == InitCascade /\ [][CascadeNext]_vars

GateNext ==
    \/ BatchScoreOptimized
    \/ AcquireGate
    \/ CallScoreProperty
    \/ ScorePropertyReturns
    \/ ReleaseGate
    \/ GatherReturns

InitGate ==
    /\ GateInit
    /\ LeadCallIdle
    /\ AssignsIdle
    /\ ScoringIdle
    /\ RunIdle
    /\ TerritoryIdle
    /\ CascadeIdle
    /\ DecayIdle
    /\ MatchIdle
    /\ CalibIdle

\* the event loop runs a task that can run, and the database answers
SpecGate == InitGate /\ [][GateNext]_vars /\ WF_vars(GateNext)

ScoringNext ==
    \/ BaselineGetProperty
    \/ ReadTemporalFeatures
    \/ ReadInteractionFeatures
    \/ ReadViolations
    \/ ReadRequests
    \/ ReadInteractionScore
    \/ BaselineReturns
    \/ LinkCodeViolations

InitScoring ==
    /\ ScoringInit
    /\ LeadCallIdle
    /\ AssignsIdle
    /\ RunIdle
    /\ TerritoryIdle
    /\ CascadeIdle
    /\ GateIdle
    /\ DecayIdle
    /\ MatchIdle
    /\ CalibIdle

SpecScoring == InitScoring /\ [][ScoringNext]_vars

RunNext ==
    \/ LinkRecord
    \/ ScoreRecord
    \/ PeriodicCommit
    \/ FinalCommit
    \/ Crash

InitRun ==
    /\ RunInit
    /\ LeadCallIdle
    /\ AssignsIdle
    /\ properties = NoProperties
    /\ TerritoryIdle
    /\ CascadeIdle
    /\ GateIdle
    /\ ScoringIdle
    /\ DecayIdle
    /\ MatchIdle
    /\ IngestIdle
    /\ ScoreIdle
    /\ CalibIdle

SpecRun == InitRun /\ [][RunNext]_vars

SimilarityNext == AddressSimilarity

InitSimilarity ==
    /\ ServiceIdle
    /\ SimilarityInit
    /\ properties = NoProperties
    /\ DecayIdle
    /\ IngestIdle
    /\ ScoreIdle
    /\ CalibIdle

SpecSimilarity == InitSimilarity /\ [][SimilarityNext]_vars

IngestNext ==
    UpsertProperties \/ Link311Requests \/ LinkCodeViolations \/ LinkStormEvents

\* the database starts empty
InitIngest ==
    /\ ServiceIdle
    /\ properties = NoProperties
    /\ IngestIdle
    /\ DecayIdle
    /\ MatchIdle
    /\ ScoreIdle
    /\ CalibIdle

SpecIngest == InitIngest /\ [][IngestNext]_vars

ScoreNext ==
    ScoreProperty \/ CalculateBaselineScore \/ CalculateTradeScore \/ CalculateAllFeatures

InitScore ==
    /\ ServiceIdle
    /\ ScoreInit
    /\ CalibIdle
    /\ DecayIdle
    /\ MatchIdle

SpecScore == InitScore /\ [][ScoreNext]_vars

BatchNext == BatchScoreProperties

InitBatch ==
    /\ ServiceIdle
    /\ BatchInit
    /\ DecayIdle
    /\ MatchIdle
    /\ CalibIdle

SpecBatch == InitBatch /\ [][BatchNext]_vars

RecalcNext == RecalculateScores \/ LinkCodeViolations

InitRecalc ==
    /\ ServiceIdle
    /\ RecalcInit
    /\ CalibIdle
    /\ DecayIdle
    /\ MatchIdle

SpecRecalc == InitRecalc /\ [][RecalcNext]_vars

CalibNext ==
    \/ AnalyzeScoreAccuracy
    \/ CalculateCalibrationAdjustments
    \/ GetCalibrationRecommendations

InitCalib ==
    /\ ServiceIdle
    /\ CalibInit
    /\ properties = NoProperties
    /\ IngestIdle
    /\ DecayIdle
    /\ MatchIdle

SpecCalib == InitCalib /\ [][CalibNext]_vars

FeedbackNext == SubmitFeedback

InitFeedback ==
    /\ ServiceIdle
    /\ FeedbackInit
    /\ properties = NoProperties
    /\ IngestIdle
    /\ DecayIdle
    /\ MatchIdle
    /\ ScoreIdle

SpecFeedback == InitFeedback /\ [][FeedbackNext]_vars

ApplyNext == ApplyCalibration

InitApply ==
    /\ ServiceIdle
    /\ ApplyInit
    /\ properties = NoProperties
    /\ IngestIdle
    /\ DecayIdle
    /\ MatchIdle
    /\ ScoreIdle

SpecApply == InitApply /\ [][ApplyNext]_vars

TerritoryNext == AssignTerritory \/ RevokeTerritory

InitTerritory ==
    /\ TerritoryInit
    /\ LeadCallIdle
    /\ AssignsIdle
    /\ CascadeIdle
    /\ GateIdle
    /\ ScoringIdle
    /\ RunIdle
    /\ properties = NoProperties
    /\ DecayIdle
    /\ MatchIdle
    /\ IngestIdle
    /\ ScoreIdle
    /\ CalibIdle

SpecTerritory == InitTerritory /\ [][TerritoryNext]_vars

AssignNext ==
    \/ AssignGetContractor
    \/ AssignCheckExclusive
    \/ AssignSelectOwn
    \/ AssignCommit

InitAssign ==
    /\ AssignsInit
    /\ LeadCallIdle
    /\ CascadeIdle
    /\ GateIdle
    /\ ScoringIdle
    /\ RunIdle
    /\ properties = NoProperties
    /\ DecayIdle
    /\ MatchIdle
    /\ IngestIdle
    /\ ScoreIdle
    /\ CalibIdle

SpecAssign == InitAssign /\ [][AssignNext]_vars

LeadsNext ==
    \/ GenerateLeads
    \/ AssignLeadToContractor
    \/ MarkLeadDelivered
    \/ MarkLeadConverted

InitLeads ==
    /\ LeadsInit
    /\ CascadeIdle
    /\ GateIdle
    /\ ScoringIdle
    /\ RunIdle
    /\ AssignsIdle
    /\ DecayIdle
    /\ MatchIdle
    /\ IngestIdle
    /\ score_call = NoScoreCall
    /\ score_result = <<>>
    /\ features_result = <<>>
    /\ batch_result = <<>>
    /\ recalc_runs = NoRuns
    /\ lead_feedback = {}
    /\ calib_call = NoCalibCall
    /\ accuracy_result = <<>>
    /\ adjustments_result = <<>>
    /\ feedback_call = NoFeedbackCall
    /\ calibrated_result = <<>>

SpecLeads == InitLeads /\ [][LeadsNext]_vars

\* ------------------------------------------------------------------------
\* Claims about the decay calculator (under SpecDecay)
\* ------------------------------------------------------------------------

\* C8: for every non-negative base score, positive half-life and signal
\* date, the strength returned lies in [0, base_score]; a null date gives
\* 0.0 and a date after the reference date gives exactly base_score.
DecayWithinBase ==
    decay_result # NoValue =>
        /\ 0 <= decay_result /\ decay_result <= decay_call.base_score
        /\ decay_call.signal_date = NoValue => decay_result = 0
        /\ (decay_call.signal_date # NoValue /\ decay_call.signal_date > Today)
              => decay_result = decay_call.base_score

\* a null date after a future date, both answered, for a positive base score
DecayNullAfterFuture ==
    /\ decay_result = 0
    /\ decay_call.signal_date = NoValue
    /\ decay_call.base_score > 0
    /\ decay_prev # <<>>
    /\ decay_prev[1].signal_date > Today
    /\ decay_prev[1].strength = decay_call.base_score

\* days elapsed between a signal date and the reference date
DaysElapsed(signal_date) == Today - signal_date

\* C9: for a fixed base score and half-life the strength is non-increasing
\* in the days elapsed, and a signal exactly one half-life old has half the
\* base score (30 days, half-life 30, base 1.0: 0.5).
DecayMonotoneAndHalves ==
    decay_result # NoValue /\ decay_call.signal_date # NoValue =>
        /\ (DaysElapsed(decay_call.signal_date) = decay_call.half_life_days)
              => 2 * decay_result = decay_call.base_score
        /\ (decay_prev # <<>> /\ decay_prev[1].signal_date # NoValue) =>
              /\ (DaysElapsed(decay_prev[1].signal_date)
                     <= DaysElapsed(decay_call.signal_date))
                    => decay_prev[1].strength >= decay_result
              /\ (DaysElapsed(decay_prev[1].signal_date)
                     >= DaysElapsed(decay_call.signal_date))
                    => decay_prev[1].strength <= decay_result

\* base 1.0, half-life 30: a signal 30 days old answers 0.5 after a signal
\* 10 days old answered more
DecayHalfLifePoint ==
    /\ decay_call = [base_score |-> One, half_life_days |-> 30,
                     signal_date |-> Today - 30]
    /\ decay_result = 5000
    /\ decay_prev # <<>>
    /\ decay_prev[1].signal_date = Today - 10
    /\ decay_prev[1].strength > 5000

\* ------------------------------------------------------------------------
\* Claims about the matcher (under SpecMatch)
\* ------------------------------------------------------------------------

\* C2: match_address_to_property never returns a property together with a
\* confidence below MATCH_THRESHOLD: either the property is None, with the
\* best score found (in [0, 1]) as confidence, or the confidence is >= 0.7.
MatchNeverBelowThreshold ==
    match_result # <<>> =>
        /\ 0 <= match_result[1].confidence /\ match_result[1].confidence <= Whole
        /\ match_result[1].property # NoValue
              => match_result[1].confidence >= MATCH_THRESHOLD

\* a property returned with a confidence of exactly 0.7, by a call that
\* is not for its own address
MatchAtThreshold ==
    /\ match_result # <<>>
    /\ match_result[1].property # NoValue
    /\ match_result[1].confidence = MATCH_THRESHOLD
    /\ \A prop \in properties : prop.situs_address # match_call.address

\* the call passes the stored address, ZIP and centroid of a property
\* that has all three
IsOwnAddressCall(prop) ==
    /\ prop.situs_address # <<>>
    /\ prop.situs_zip # NULL
    /\ prop.centroid_y # NoValue /\ prop.centroid_x # NoValue
    /\ match_call.address = prop.situs_address
    /\ match_call.zip_code = prop.situs_zip
    /\ match_call.latitude = prop.centroid_y
    /\ match_call.longitude = prop.centroid_x

\* C10: for every property with a non-empty stored address, matching its
\* own address with its own ZIP and centroid returns that same property
\* with confidence >= 0.9, whatever else is in the table.
OwnAddressMatchesItself ==
    match_result # <<>> =>
        \A prop \in properties :
            IsOwnAddressCall(prop) =>
                /\ match_result[1].property = prop.prop_id
                /\ match_result[1].confidence >= HIGH_CONFIDENCE_THRESHOLD

\* ------------------------------------------------------------------------
\* Claims about ingestion (under SpecIngest)
\* ------------------------------------------------------------------------

\* the row refers to a property only as the match that wrote it allows
LinkedByItsMatch(prop_id, external_id) ==
    /\ link_matches[external_id] # <<>>
    /\ prop_id = link_matches[external_id][1].prop_id
    /\ prop_id # NoValue => link_matches[external_id][1].confidence >= MATCH_THRESHOLD
    /\ link_matches[external_id][1].confidence < MATCH_THRESHOLD => prop_id = NoValue

\* C3: after any sequence of link_311_requests and link_code_violations
\* runs, re-ingestion included, every stored service request or code
\* violation with a property reference got it from the match of the step
\* that wrote it, with confidence >= 0.7; a match below 0.7 leaves no
\* property reference on the row.
LinkOnlyAboveThreshold ==
    /\ \A r \in service_requests : LinkedByItsMatch(r.prop_id, r.request_id)
    /\ \A r \in code_violations : LinkedByItsMatch(r.prop_id, r.violation_id)

\* a request first stored for one address, ingested again for another
\* that matches nothing well enough: the row's reference is gone
RelinkedToNothing ==
    /\ last_ingest.kind = "311"
    /\ \E r \in service_requests :
          /\ r.request_id = last_ingest.record.request_id
          /\ r.address # last_ingest.record.address
          /\ r.prop_id = NoValue
          /\ link_matches[r.request_id][1].confidence > 0
          /\ link_matches[r.request_id][1].confidence < MATCH_THRESHOLD
    /\ \E r \in code_violations : r.prop_id # NoValue

\* the number of rows in the table of the latest step
IngestedRowCount ==
    CASE last_ingest.kind = "311" -> Cardinality(service_requests)
      [] last_ingest.kind = "violation" -> Cardinality(code_violations)
      [] last_ingest.kind = "storm" -> Cardinality(storm_events)
      [] last_ingest.kind = "property" -> Cardinality(properties)
      [] OTHER -> 0

\* the number of its rows that carry an external id
RowsWithId(external_id) ==
    CASE last_ingest.kind = "311" ->
             Cardinality({r \in service_requests : r.request_id = external_id})
      [] last_ingest.kind = "violation" ->
             Cardinality({r \in code_violations : r.violation_id = external_id})
      [] last_ingest.kind = "storm" ->
             Cardinality({r \in storm_events : r.event_id = external_id})
      [] last_ingest.kind = "property" ->
             Cardinality({r \in properties : r.prop_id = external_id})
      [] OTHER -> 0

\* the external ids the latest step ingested
IngestedIds ==
    CASE last_ingest.kind = "311" -> {last_ingest.record.request_id}
      [] last_ingest.kind = "violation" -> {last_ingest.record.violation_id}
      [] last_ingest.kind = "storm" -> {last_ingest.record.event_id}
      [] last_ingest.kind = "property" ->
             {last_ingest.record[i].prop_id : i \in 1 .. Len(last_ingest.record)}
      [] OTHER -> {}

ScoreWithinUnitInterval ==
    (score_result # <<>> /\ ~score_result[1].raised)
        => (0 <= score_result[1].score /\ score_result[1].score <= One)

\* the roofing scorer has returned 1.0 for a property in the roofing age
\* window with a dated roof violation and recent large hail in its ZIP code
RoofingScoreAtCap ==
    /\ score_result # <<>>
    /\ score_call.function = "calculate_roofing_score"
    /\ score_result[1].score = One
    /\ HailBoost(Database, PropertyOf(Database, score_call.prop_id)) = 4000
    /\ AgeWindowBoost(PropertyOf(Database, score_call.prop_id), 15, 25) = 2000
    /\ \E v \in RoofViolations(Database, score_call.prop_id) : v.violation_date # NoValue

\* ------------------------------------------------------------------------
\* Claims about batch scoring (under SpecBatch)
\* ------------------------------------------------------------------------

\* C20: batch_score_properties returns exactly one result per requested
\* property id, after truncation to the limit and in input order; an id that
\* no property carries as its prop_id, or whose scoring raises, contributes
\* an entry with score 0.0 and an error, and every other id is scored
BatchReportsEveryProperty ==
    batch_result # <<>> =>
        /\ Len(batch_result[1]) = Len(Truncated(score_call.prop_ids, score_call.limit))
        /\ \A i \in 1 .. Len(batch_result[1]) :
              IF \/ ~\E p \in properties :
                        p.prop_id = Truncated(score_call.prop_ids, score_call.limit)[i]
                 \/ score_property(Database,
                        Truncated(score_call.prop_ids, score_call.limit)[i],
                        score_call.trade, score_call.month).raised
              THEN batch_result[1][i].error /\ batch_result[1][i].score = 0
              ELSE batch_result[1][i] =
                      score_property(Database,
                          Truncated(score_call.prop_ids, score_call.limit)[i],
                          score_call.trade, score_call.month)

\* ------------------------------------------------------------------------
\* Claims about the score scheduler (under SpecRecalc)
\* ------------------------------------------------------------------------

\* the rows of lead_scores for a (property, trade) pair
ScoreRows(prop_id, trade) ==
    {r \in lead_scores : r.prop_id = prop_id /\ r.trade = trade}

\* C5: the score store holds the latest score of each (property, trade)
\* pair: for every trade that recalculate_scores has run for and every
\* property that run computed a score for, lead_scores holds exactly one row
\* of that property and trade, and it carries the score of the latest run.
LatestScorePerPropertyAndTrade ==
    \A trade \in RecalcTrades :
        recalc_runs[trade] # <<>> =>
            \A c \in recalc_runs[trade][1].computed :
                /\ Cardinality(ScoreRows(c.prop_id, trade)) = 1
                /\ \A r \in ScoreRows(c.prop_id, trade) : r.intent_score = c.score

\* ------------------------------------------------------------------------
\* Claims about the calibration (under SpecCalib)
\* ------------------------------------------------------------------------

\* C6: every bucket in the result of calculate_calibration_adjustments
\* carries an adjustment_factor between 0.5 and 2.0, whatever its observed
\* and expected rates, a bucket without leads or without conversions
\* included; an expected rate of 50 % with an observed rate of 20 % gives
\* 0.5, not 0.4.
AdjustmentFactorWithinClamp ==
    /\ AdjustmentFactor(2000, 5000) = 5000
    /\ (adjustments_result # <<>> /\ ~adjustments_result[1].error) =>
          \A name \in DOMAIN adjustments_result[1].adjustments :
              /\ adjustments_result[1].adjustments[name].adjustment_factor >= 5000
              /\ adjustments_result[1].adjustments[name].adjustment_factor <= 2 * One

\* the adjustments of a run hold a bucket raised to 0.5 from a rate of zero,
\* a bucket cut to 2.0, and a bucket with a factor strictly in between
AdjustmentsClampedBothWays ==
    /\ adjustments_result # <<>>
    /\ ~adjustments_result[1].error
    /\ \E low, high, mid \in DOMAIN adjustments_result[1].adjustments :
          /\ adjustments_result[1].adjustments[low].actual_rate = 0
          /\ adjustments_result[1].adjustments[low].adjustment_factor = 5000
          /\ adjustments_result[1].adjustments[high].adjustment_factor = 2 * One
          /\ 2 * adjustments_result[1].adjustments[high].expected_rate
                < adjustments_result[1].adjustments[high].actual_rate
          /\ adjustments_result[1].adjustments[mid].adjustment_factor > 5000
          /\ adjustments_result[1].adjustments[mid].adjustment_factor < 2 * One

\* C7: the five buckets partition the score range [0, 1], 1.0 included: in
\* an analysis every joined feedback row is counted in one bucket, so the
\* bucket totals add up to the number of joined rows.
BucketsCountEveryRow ==
    (accuracy_result # <<>> /\ ~accuracy_result[1].error) =>
        /\ accuracy_result[1].total_leads = accuracy_result[1].data_points
        /\ \A r \in JoinedRows(leads, lead_scores, lead_feedback, calib_call.trade) :
              RangeOf(r.intent_score) \in RangeNames


\* C11: match_signal_to_property labels a result "high_confidence" exactly when
\* a property is returned with confidence at least 0.9, "medium_confidence"
\* exactly when a property is returned with confidence in [0.7, 0.9), and
\* "no_match" exactly when no property id is returned
SignalMethodFollowsConfidence ==
    signal_result # <<>> =>
        LET r == signal_result[1] IN
        /\ r.match_method \in {"high_confidence", "medium_confidence", "no_match"}
        /\ r.match_method = "high_confidence"
              <=> (r.prop_id # NoValue /\ r.confidence >= HIGH_CONFIDENCE_THRESHOLD)
        /\ r.match_method = "medium_confidence"
              <=> (/\ r.prop_id # NoValue
                   /\ r.confidence >= MATCH_THRESHOLD
                   /\ r.confidence < HIGH_CONFIDENCE_THRESHOLD)
        /\ r.match_method = "no_match" <=> r.prop_id = NoValue

\* a property returned below 0.9 and labelled medium confidence
SignalMatchedMedium ==
    /\ signal_result # <<>>
    /\ signal_result[1].prop_id # NoValue
    /\ signal_result[1].confidence < HIGH_CONFIDENCE_THRESHOLD
    /\ signal_result[1].match_method = "medium_confidence"


\* C12: score_property called with a property id that no row of the property
\* table carries as its prop_id returns score 0.0 with the error "Property
\* not found" (the only error the function reports), raises nothing and
\* writes to no table
ScoreOfMissingPropertyIsNotFound ==
    [][(/\ score_call'.function = "score_property"
        /\ ~\E p \in properties : p.prop_id = score_call'.prop_id)
       => (/\ score_result' = <<NotFound>>
           /\ UNCHANGED <<properties, code_violations, service_requests, storm_events,
                          lead_scores, leads, lead_feedback>>)]_vars

\* C13: calculate_all_features called with a property id that does not exist
\* (no row has it as its id or as its prop_id) returns an empty feature set,
\* no key at all
FeaturesOfMissingPropertyAreEmpty ==
    (/\ features_result # <<>>
     /\ ~HasProperty(Database, score_call.prop_id)
     /\ ~\E p \in properties : p.prop_id = score_call.prop_id)
        => features_result[1] = {}

\* C14: for every property and every trade string that is, in lower case,
\* none of roofing, hvac, siding, electrical, score_property raises nothing
\* and returns what score_property without a trade returns on the same data:
\* the same score and the same components
UnknownTradeScoresAsBaseline ==
    (/\ score_result # <<>>
     /\ score_call.function = "score_property"
     /\ score_call.trade # NULL
     /\ Lower(score_call.trade) \notin TRADE_OPTIONS)
        => /\ ~score_result[1].raised
           /\ score_result[1] =
                 score_property(Database, score_call.prop_id, NULL, score_call.month)
           /\ HasProperty(Database, score_call.prop_id) =>
                 /\ score_result[1].score =
                       calculate_baseline_score(Database, score_call.prop_id, NULL).score
                 /\ score_result[1].components =
                       BaselineComponents(Database, score_call.prop_id, NULL)

\* score_property has scored a stored property for the trade "Plumbing", with
\* a lifecycle component and a recency boost in the result
UnknownTradeScored ==
    /\ score_result # <<>>
    /\ score_call.function = "score_property"
    /\ score_call.trade = "Plumbing"
    /\ HasProperty(Database, score_call.prop_id)
    /\ score_result[1].score > 0
    /\ score_result[1].components.lifecycle_score > 0
    /\ score_result[1].components.recency_boost = 1000

RangeHolding(base_score) ==
    IF base_score = One THEN "0.9-1.0" ELSE RangeOf(base_score)

\* C17: apply_calibration returns min(1, max(0, base_score * factor)) with
\* the factor of the range that holds base_score, the last range holding
\* 1.0, and base_score itself when the map is empty or has no such range
CalibratedByTheFactorOfItsRange ==
    calibrated_result # <<>> =>
        calibrated_result[1] =
            IF RangeHolding(calib_call.base_score) \in DOMAIN calib_call.calibration_adjustments
            THEN Max(0, Min(One,
                     (calib_call.base_score
                        * calib_call.calibration_adjustments[
                              RangeHolding(calib_call.base_score)].adjustment_factor)
                     \div One))
            ELSE calib_call.base_score

\* ------------------------------------------------------------------------
\* Claims about the address similarity (under SpecSimilarity)
\* ------------------------------------------------------------------------

\* C18: address_similarity is symmetric and lies in [0, 1]; an address that is
\* not empty has similarity 1.0 with itself; the similarity with an empty
\* address, on either side, is 0.0
SimilarityIsSymmetricAndBounded ==
    similarity.compared =>
        /\ similarity.results[1] = similarity.results[2]
        /\ 0 <= similarity.results[1] /\ similarity.results[1] <= Whole
        /\ similarity.addr1 # <<>> => similarity.results[3] = Whole
        /\ similarity.addr2 # <<>> => similarity.results[4] = Whole
        /\ (similarity.addr1 = <<>> \/ similarity.addr2 = <<>>) =>
              similarity.results[1] = 0

\* two addresses of different length that share some words, compared
PartlySimilarCompared ==
    /\ similarity.compared
    /\ Len(similarity.addr1) < Len(similarity.addr2)
    /\ Cardinality(Words(normalize_address_simple(similarity.addr1)))
          # Cardinality(Words(normalize_address_simple(similarity.addr2)))
    /\ 0 < similarity.results[1]
    /\ similarity.results[1] < Whole

\* ------------------------------------------------------------------------
\* Claims about the feedback collector (under SpecFeedback)
\* ------------------------------------------------------------------------

\* whether a rating is an integer outside 1..5
OutOfRange(rating) == rating # NoValue /\ (rating < 1 \/ rating > 5)

\* C15: submit_feedback rejects malformed input before any persistence: when
\* the outcome is none of the five valid ones, or one of the three ratings
\* is an integer outside 1..5, the call raises and neither the feedback
\* table nor the lead changes
MalformedFeedbackIsRejected ==
    [][(/\ feedback_call'.function = "submit_feedback"
        /\ \/ feedback_call'.args.outcome \notin valid_outcomes
           \/ OutOfRange(feedback_call'.args.lead_quality_rating)
           \/ OutOfRange(feedback_call'.args.accuracy_rating)
           \/ OutOfRange(feedback_call'.args.contact_quality_rating))
       => (feedback_call'.raised /\ UNCHANGED <<lead_feedback, leads>>)]_vars

\* ------------------------------------------------------------------------
\* Claims about the territories (under SpecTerritory)
\* ------------------------------------------------------------------------

\* C19: after any sequence of assign_territory and revoke_territory calls,
\* where a (ZIP code, trade) pair has an active exclusive assignment no
\* other contractor holds an active assignment, exclusive or not, for it
TerritoriesAreExclusive ==
    \A t \in contractor_territories :
        (t.status = "active" /\ t.is_exclusive) =>
            ~\E u \in contractor_territories :
                /\ u.contractor_id # t.contractor_id
                /\ u.zip_code = t.zip_code
                /\ u.trade = t.trade
                /\ u.status = "active"

\* ------------------------------------------------------------------------
\* Claims about the matcher's cascade (under SpecCascade)
\* ------------------------------------------------------------------------

\* C21: the coordinate strategy sends its query only when best_score after
\* the ZIP strategy is below 0.7 and latitude and longitude are both given;
\* the fuzzy strategy sends its query only when best_score after the first
\* two is below 0.7 and a ZIP is known; once best_score has reached 0.7 no
\* later strategy queries; best_score never decreases from one strategy to
\* the next.
CascadeIsGated ==
    LET after == cascade.scores
        m == cascade.m
    IN /\ Len(after) >= 2 =>
            /\ "coordinate" \in m.queried =>
                    /\ after[1] < MATCH_THRESHOLD
                    /\ m.latitude # NoValue /\ m.longitude # NoValue
            /\ after[1] >= MATCH_THRESHOLD => m.queried \subseteq {"zip"}
            /\ after[1] <= after[2]
       /\ Len(after) >= 3 =>
            /\ "fuzzy" \in m.queried =>
                    /\ after[2] < MATCH_THRESHOLD
                    /\ m.zip_to_match # NULL
            /\ after[2] >= MATCH_THRESHOLD => "fuzzy" \notin m.queried
            /\ after[2] <= after[3]

\* a call with coordinates whose ZIP strategy reached 0.7 returned, and
\* neither later strategy had sent a query
CascadeStoppedAtZip ==
    /\ cascade.step = "done"
    /\ Len(cascade.scores) = 3
    /\ cascade.scores[1] >= MATCH_THRESHOLD
    /\ TruthyNumber(cascade.m.latitude) /\ TruthyNumber(cascade.m.longitude)
    /\ RowsInBox(properties, cascade.m.latitude, cascade.m.longitude) # {}
    /\ cascade.m.queried = {"zip"}
    /\ cascade.result[1].property # NoValue

\* ------------------------------------------------------------------------
\* Claims about optimized batch scoring (under SpecGate)
\* ------------------------------------------------------------------------

\* the safety part of C22
GateHolds ==
    /\ Cardinality(InsideGate(gate.tasks)) <= CONCURRENT_BATCHES
    /\ gate.step = "gathering" =>
            gate.value = CONCURRENT_BATCHES - Cardinality(InsideGate(gate.tasks))
    /\ \A b \in DOMAIN gate.tasks :
          LET task == gate.tasks[b]
          IN /\ task.calls = SubSeq(task.batch, 1, Len(task.calls))
             /\ task.pc = "done" => Len(task.calls) = Len(task.batch)
    /\ gate.step = "returned" => gate.value = CONCURRENT_BATCHES

\* C22: at every moment at most CONCURRENT_BATCHES batches hold the
\* semaphore; each batch calls score_property for its ids one at a time in
\* list order; a batch in which scoring raised gives its place in the
\* semaphore back; every batch completes and gather returns.
GateBoundsBatchesAndGatherReturns ==
    /\ []GateHolds
    /\ <>(gate.step = "returned")

\* four batches hold the semaphore, a fifth waits, and scoring has raised
\* in one of the four
GateFullWithRaisedBatch ==
    /\ gate.step = "gathering"
    /\ Cardinality(InsideGate(gate.tasks)) = CONCURRENT_BATCHES
    /\ \E b \in DOMAIN gate.tasks : gate.tasks[b].pc = "pending"
    /\ \E b \in InsideGate(gate.tasks) : gate.tasks[b].raised

\* ------------------------------------------------------------------------
\* Claims about scoring beside ingestion (under SpecScoring)
\* ------------------------------------------------------------------------

\* C23: a score returned while ingestion runs has every component computed
\* from the state of the property's signals that its FeatureSet was
\* resolved from: the result is the one calculate_baseline_score gives on
\* the database as the feature queries saw it.
ComponentsFromTheStateOfTheFeatures ==
    scoring.step = "done" =>
        LET result == scoring.result[1]
            seen == scoring.reads.interaction
        IN /\ result.components =
                  BaselineComponents(seen, scoring.prop_id, scoring.trade)
           /\ result.score =
                  calculate_baseline_score(seen, scoring.prop_id, scoring.trade).score

\* without a commit in between, the call taken query by query returns what
\* calculate_baseline_score returns
QuietScoringAgrees ==
    (scoring.step = "done" /\ last_ingest = NoIngest) =>
        /\ scoring.result[1].components =
              BaselineComponents(Database, scoring.prop_id, scoring.trade)
        /\ scoring.result[1].score =
              calculate_baseline_score(Database, scoring.prop_id, scoring.trade).score

\* ------------------------------------------------------------------------
\* Claims about the periodic commits (under SpecRun)
\* ------------------------------------------------------------------------

\* C24: at every point of a linking run or of a recalculate_scores run the
\* rows written and not yet committed are at most one commit interval, and
\* what a crash (or a commit that fails) loses is at most that and never a
\* committed row.
UncommittedWorkIsBounded ==
    /\ Cardinality(run.pending) <= CommitInterval
    /\ Cardinality(run.lost) <= CommitInterval
    /\ run.lost \cap run.committed = {}
    /\ run.pending \cap run.committed = {}

\* a run crashed with a full interval written and its commit not yet done,
\* after an earlier interval had been committed
CrashedBeforeSecondCommit ==
    /\ run.step = "crashed"
    /\ Cardinality(run.lost) = CommitInterval
    /\ Cardinality(run.committed) = CommitInterval

\* C26: when recalculate_scores returns, every selected property is counted
\* exactly once: total = scored + failed, also when scoring, the upsert or
\* a periodic commit has raised for some property.
RecalcStatsAddUp ==
    (run.function = "recalculate_scores" /\ run.step = "returned") =>
        run.stats.total = run.stats.scored + run.stats.failed

\* ------------------------------------------------------------------------
\* Claims about the baseline formula (under SpecScore)
\* ------------------------------------------------------------------------

\* the latest dated signal of the property is at most 30 days old
LatestWithin30(dates) ==
    LET dated == {d \in dates : d # NoValue}
    IN dated # {} /\ \A d \in dated : (\A e \in dated : e <= d) => Today - d <= 30

\* C25: for a stored property, calculate_baseline_score returns
\* score = min(1, 0.3 violation_score + 0.25 request_score
\* + 0.15 lifecycle_score + 0.10 interaction_score + recency), each component
\* in [0, 1], no lifecycle term when the age is unknown, and recency 0.10
\* exactly when the latest violation or the latest request is at most 30
\* days old.
BaselineIsTheWeightedSum ==
    (/\ score_result # <<>>
     /\ score_call.function = "calculate_baseline_score"
     /\ \E p \in properties : p.prop_id = score_call.prop_id)
        => LET result == score_result[1]
               c == result.components
               p == CHOOSE q \in properties : q.prop_id = score_call.prop_id
               recent ==
                   \/ LatestWithin30({v.violation_date : v \in
                          {w \in code_violations : w.prop_id = p.prop_id}})
                   \/ LatestWithin30({r.requested_date : r \in
                          {q \in service_requests : q.prop_id = p.prop_id}})
           IN /\ ~result.raised /\ ~result.error
              /\ DOMAIN c = {"violation_score", "request_score", "lifecycle_score",
                             "interaction_score", "recency_boost"}
              /\ \A name \in DOMAIN c : 0 <= c[name] /\ c[name] <= One
              /\ p.first_improvement_year = NoValue => c.lifecycle_score = 0
              /\ c.recency_boost = IF recent THEN 1000 ELSE 0
              /\ result.score =
                    Min(One, (3000 * c.violation_score) \div One
                             + (2500 * c.request_score) \div One
                             + (1500 * c.lifecycle_score) \div One
                             + (1000 * c.interaction_score) \div One
                             + c.recency_boost)

\* C27: for every stored property and each of roofing, hvac, siding and
\* electrical, the trade scorer returns a score that is at least the score
\* calculate_baseline_score returns for that property and trade on the same
\* data, and every component of the baseline is in the trade result's
\* components with the same value.
TradeBoostsOnlyAdd ==
    (/\ score_result # <<>>
     /\ score_call.function \in {"calculate_" \o trade \o "_score" : trade \in TRADE_OPTIONS}
     /\ \E p \in properties : p.prop_id = score_call.prop_id)
        => LET result == score_result[1]
               base_score ==
                   calculate_baseline_score(Database, score_call.prop_id, score_call.trade)
           IN /\ ~result.raised
              /\ result.score >= base_score.score
              /\ \A name \in DOMAIN base_score.components :
                    /\ name \in DOMAIN result.components
                    /\ result.components[name] = base_score.components[name]

\* ------------------------------------------------------------------------
\* Claims about interleaved territory assignments (under SpecAssign)
\* ------------------------------------------------------------------------

\* C28: two exclusive assign_territory calls for the same ZIP code and
\* trade by different contractors, interleaved at their awaits, do not both
\* succeed: when both have ended, one of them has raised and the pair has at
\* most one active exclusive territory.
OneExclusiveAssignmentWins ==
    (/\ \A task \in Tasks : assigns[task].step \in {"returned", "raised"}
     /\ \A task \in Tasks : assigns[task].is_exclusive
     /\ assigns[1].contractor_id # assigns[2].contractor_id)
        => /\ \E task \in Tasks : assigns[task].step = "raised"
           /\ Cardinality(ActiveExclusive(contractor_territories,
                                          assigns[1].zip_code, assigns[1].trade)) <= 1

\* ------------------------------------------------------------------------
\* Claims about the leads (under SpecLeads)
\* ------------------------------------------------------------------------
\* at most one lead in status "generated" per (property, trade)
OneGeneratedLead ==
    \A a \in leads : \A b \in leads :
        (/\ a.status = "generated" /\ b.status = "generated"
         /\ a.prop_id = b.prop_id /\ a.trade = b.trade) => a.id = b.id

\* the leads a step adds are of no property that had a lead of the trade in
\* status "assigned" or "delivered"
NoLeadOverAssigned ==
    \A new \in leads' \ leads :
        ~\E old \in leads : /\ old.prop_id = new.prop_id
                            /\ old.trade = new.trade
                            /\ old.status \in {"assigned", "delivered"}

\* C29 as stated: after any sequence of generate_leads calls, with or
\* without assignments, deliveries and conversions in between, there is at
\* most one lead in status "generated" per (property, trade), and no call
\* creates a lead for a property that has a lead of the trade in status
\* "assigned" or "delivered".
GenerateLeadsNeverDuplicates ==
    /\ []OneGeneratedLead
    /\ [][lead_call'.function = "generate_leads" => NoLeadOverAssigned]_vars

\* C29, amended: the same, where the second part is about the calls that
\* leave exclude_assigned at True.
GenerateLeadsExcludingAssigned ==
    /\ []OneGeneratedLead
    /\ [][(lead_call'.function = "generate_leads" /\ lead_call'.exclude_assigned)
              => NoLeadOverAssigned]_vars

\* a call with exclude_assigned and without limit or ZIP filter has
\* returned: a property with a score above the minimum and an assigned
\* lead has no lead in status "generated", while another property has got
\* its lead after that assignment
GeneratedBesideAssigned ==
    /\ lead_call.function = "generate_leads"
    /\ lead_call.exclude_assigned
    /\ lead_call.max_leads = NoValue
    /\ lead_call.zip_codes = <<>>
    /\ ~lead_call.raised
    /\ \E a \in leads : \E g \in leads :
            /\ a.status = "assigned" /\ g.status = "generated"
            /\ a.trade = lead_call.trade /\ g.trade = lead_call.trade
            /\ a.prop_id # g.prop_id /\ a.id < g.id
            /\ a.intent_score >= 6000
            /\ \E row \in lead_scores : row.prop_id = a.prop_id /\ row.trade = a.trade
            /\ ~\E l \in leads : l.prop_id = a.prop_id /\ l.status = "generated"

\* C30: assign_lead_to_contractor sets the lead to "assigned" with the
\* contractor only if the contractor holds an active territory for the
\* lead's ZIP code and trade at the time of the call; otherwise it raises
\* and leaves the lead as it was.
AssignmentNeedsTerritory ==
    [][(/\ lead_call'.function = "assign_lead_to_contractor"
        /\ \E l \in leads : l.id = lead_call'.lead_id)
          => LET lead == CHOOSE l \in leads : l.id = lead_call'.lead_id
                 holds == \E t \in contractor_territories :
                             /\ t.contractor_id = lead_call'.contractor_id
                             /\ t.zip_code = lead.zip_code
                             /\ t.trade = lead.trade
                             /\ t.status = "active"
             IN IF holds
                THEN \/ lead_call'.raised /\ leads' = leads
                     \/ /\ ~lead_call'.raised
                        /\ \E l \in leads' : /\ l.id = lead.id
                                              /\ l.status = "assigned"
                                              /\ l.contractor_id = lead_call'.contractor_id
                ELSE lead_call'.raised /\ leads' = leads]_vars

=============================================================================
